---- MODULE Spec2Model ----
(***************************************************************************)
(* Model of the text-encoding toolkit macro-toolset.                       *)
(*                                                                         *)
(* The state is one append-only byte buffer (`string`, the Vec<u8> every   *)
(* encoder appends to) and the record of the last call made on it          *)
(* (`call`: operation, arguments and the buffer content before the call).  *)
(* Bytes are the integers 0..255; text is a sequence of bytes.  `RNG` is   *)
(* the thread-local state of fast_random: whether it has been seeded, its  *)
(* 64-bit word and the number of draws made.                               *)
(***************************************************************************)
EXTENDS Integers, Sequences, FiniteSets, TLC

VARIABLES string, call, RNG

vars == <<string, call, RNG>>

(***************************************************************************)
(* Bounds of the model.                                                    *)
(***************************************************************************)
\* largest "small" integer value drawn (the type's boundary values are added)
MaxVal == 130
\* largest resize length R drawn
MaxR == 2
\* largest minimum length M drawn
MaxM == 2
\* longest byte payload given to the fixed-length hex view
MaxLen == 3
\* largest width N of the fixed-length hex view
MaxN == 4
\* longest text (in characters) given to the percent encoder and decoder
MaxChars == 4
\* longest buffer a further value is pushed onto in a sequence of appends
MaxAppendTo == 1
\* longest text (in characters) pushed in a sequence of appends
MaxPushChars == 3
\* largest number of elements of a joined sequence
MaxItems == 3
\* the with_prefix / with_suffix calls chained on one payload
MaxWraps == 2
\* the plain elements on each side of a wrapped one
MaxNeighbours == 1
\* longest byte sequence encoded as Base64
MaxData == 4
\* longest text decoded as Base64
MaxB64Len == 4
\* largest number of draws made from the fast generator
MaxDraws == 3
\* largest repeat count RP of a RandHexStr
MaxRP == 2
\* most groups of a random_choice!
MaxGroups == 2
\* largest size of a group of a random_choice!
MaxRange == 2
\* most elements of the vector inside a SliceSep
MaxSlice == 2

\* the most fragments one calc_hash! call is given
MaxFragments == 2

\* longest payload b64_encode! writes into a given buffer
MaxInto == 2

(***************************************************************************)
(* Byte-sequence helpers (std slice / Vec operations).                     *)
(***************************************************************************)
\* <[u8]>::reverse
Reverse(s) == [i \in 1..Len(s) |-> s[Len(s) + 1 - i]]

\* Vec::resize(len + n, fill) on a buffer that only grows
Fill(n, byte) == [i \in 1..n |-> byte]

\* the prior contents on which the encoders are exercised: an empty buffer
\* and a buffer holding the text "x."
PriorBufs == { <<>>, <<120, 46>> }

(***************************************************************************)
(* string/number.rs                                                        *)
(***************************************************************************)
HEX_CHARS_LOWER == <<48, 49, 50, 51, 52, 53, 54, 55, 56, 57, 97, 98, 99, 100, 101, 102>>

HEX_CHARS_UPPER == <<48, 49, 50, 51, 52, 53, 54, 55, 56, 57, 65, 66, 67, 68, 69, 70>>

charset(U) == IF U THEN HEX_CHARS_UPPER ELSE HEX_CHARS_LOWER

\* the bases NumStr supports (debug_assert!(B >= 2 && B <= 16))
Bases == 2..16

\* the integer widths modelled (u8 / i8 and u16 / i16)
Widths == {8, 16}

\* the unsigned values drawn for a width: the small ones and the boundaries
UnsignedValues(w) ==
    {v \in 0..MaxVal : v < 2^w} \cup {2^(w-1) - 1, 2^(w-1), 2^w - 1}

\* the signed values drawn for a width: small magnitudes and the boundaries
SignedValues(w) ==
    {v \in (0 - MaxVal)..MaxVal : v >= 0 - 2^(w-1) /\ v < 2^(w-1)}
        \cup {0 - 2^(w-1), 1 - 2^(w-1), 2^(w-1) - 1}

\* R > 0 branch, the loop
\*   while let Some(s) = string.get_mut(count) { *s = charset[num % B];
\*       num /= B; count += 1; if num <= 0 { break } }
\* Mutant: the digit is written at the high end of the window first.
RECURSIVE FillDigitsHighFirst(_, _, _, _, _)
FillDigitsHighFirst(slice, num, count, B, cs) ==
    IF count < Len(slice)
    THEN LET written == [slice EXCEPT ![Len(slice) - count] = cs[(num % B) + 1]]
             rest    == num \div B
         IN  IF rest <= 0 THEN written
             ELSE FillDigitsHighFirst(written, rest, count + 1, B, cs)
    ELSE slice

RECURSIVE FillDigits(_, _, _, _, _)
FillDigits(slice, num, count, B, cs) ==
    IF count < Len(slice)
    THEN LET written == [slice EXCEPT ![count + 1] = cs[(num % B) + 1]]
             rest    == num \div B
         IN  IF rest <= 0 THEN written
             ELSE FillDigits(written, rest, count + 1, B, cs)
    ELSE slice

\* R == 0 branch, the loop
\*   while num > 0 { count += 1; string.push(charset[num % B]); num /= B }
\* The result is the buffer and the count of digits pushed.
RECURSIVE PushDigits(_, _, _, _, _)
PushDigits(buf, num, count, B, cs) ==
    IF num > 0
    THEN PushDigits(Append(buf, cs[(num % B) + 1]), num \div B, count + 1, B, cs)
    ELSE [string |-> buf, count |-> count]

\* R == 0 branch, the loop  while count < M { count += 1; string.push(b'0') }
PadMinimum(buf, count, M) ==
    IF count < M THEN buf \o Fill(M - count, 48) ELSE buf

\* NumStr<B, U, R, M, $ty>::encode for the unsigned types.
\* Mutant: the value zero is not special-cased in the R == 0 branch, so
\* nothing is pushed for it before the padding.
NumStrEncodeUnsignedNoZero(buf, v, B, U, R, M) ==
    LET current_ptr == Len(buf) IN
    IF R > 0
    THEN LET resized == buf \o Fill(R, 48) IN
         IF v = 0 THEN resized
         ELSE LET window == SubSeq(resized, current_ptr + 1, current_ptr + R)
                  filled == FillDigits(window, v, 0, B, charset(U))
              IN  SubSeq(resized, 1, current_ptr) \o Reverse(filled)
    ELSE LET pushed    == PushDigits(buf, v, 0, B, charset(U))
             padded    == PadMinimum(pushed.string, pushed.count, M)
             final_ptr == Len(padded)
         IN  SubSeq(padded, 1, current_ptr)
                 \o Reverse(SubSeq(padded, current_ptr + 1, final_ptr))

NumStrEncodeUnsigned(buf, v, B, U, R, M) ==
    LET current_ptr == Len(buf) IN
    IF R > 0
    THEN LET resized == buf \o Fill(R, 48) IN
         IF v = 0 THEN resized
         ELSE LET window == SubSeq(resized, current_ptr + 1, current_ptr + R)
                  filled == FillDigits(window, v, 0, B, charset(U))
              IN  SubSeq(resized, 1, current_ptr) \o Reverse(filled)
    ELSE IF v = 0 THEN Append(buf, 48)
         ELSE LET pushed    == PushDigits(buf, v, 0, B, charset(U))
                  padded    == PadMinimum(pushed.string, pushed.count, M)
                  final_ptr == Len(padded)
              IN  SubSeq(padded, 1, current_ptr)
                      \o Reverse(SubSeq(padded, current_ptr + 1, final_ptr))

\* $ty::is_negative
is_negative(v) == v < 0

\* $ty::unsigned_abs: the magnitude as a value of the unsigned type of the
\* same width (the magnitude of the minimum value is 2^(w-1)).
unsigned_abs(v, w) == IF v < 0 THEN (0 - v) % (2^w) ELSE v

\* NumStr<B, U, R, M, $ty>::encode for the signed types.
\* Mutant: the configured R and M are passed on to the unsigned encoder.
NumStrEncodeSignedKeepRM(buf, v, w, B, U, R, M) ==
    LET signed == IF is_negative(v) THEN Append(buf, 45) ELSE buf
    IN  NumStrEncodeUnsigned(signed, unsigned_abs(v, w), B, U, R, M)

NumStrEncodeSigned(buf, v, w, B, U, R, M) ==
    LET signed == IF is_negative(v) THEN Append(buf, 45) ELSE buf
    IN  NumStrEncodeUnsigned(signed, unsigned_abs(v, w), B, U, 0, 0)

(***************************************************************************)
(* string/hex.rs                                                           *)
(***************************************************************************)
\* all sequences over `alphabet` of length 0..n
SeqsUpTo(alphabet, n) == UNION {[1..k -> alphabet] : k \in 0..n}

\* the bytes the payloads of HexStr are made of
HexBytes == {0, 1, 167, 255}

\* the staging loop of HexStr::encode
\*   for (idx, &i) in (0..N).rev().zip(value.iter().rev()) { buffer[idx] = i }
\* `k` pairs of the zip have been consumed.
\* Mutant: neither side is reversed, the leading bytes go to the leading slots.
RECURSIVE StageBytesLeading(_, _, _)
StageBytesLeading(buffer, value, k) ==
    IF k < Len(buffer) /\ k < Len(value)
    THEN StageBytesLeading([buffer EXCEPT ![k + 1] = value[k + 1]], value, k + 1)
    ELSE buffer

RECURSIVE StageBytes(_, _, _)
StageBytes(buffer, value, k) ==
    IF k < Len(buffer) /\ k < Len(value)
    THEN StageBytes([buffer EXCEPT ![Len(buffer) - k] = value[Len(value) - k]],
                    value, k + 1)
    ELSE buffer

\* const_hex::Buffer::<N, P>::new().const_format(&buffer) / const_format_upper:
\* "0x" when P, then two digits of the character set for every byte
RECURSIVE HexPairs(_, _)
HexPairs(bytes, cs) ==
    IF bytes = <<>> THEN <<>>
    ELSE <<cs[(bytes[1] \div 16) + 1], cs[(bytes[1] % 16) + 1]>>
             \o HexPairs(Tail(bytes), cs)

const_format(buffer, P, cs) ==
    (IF P THEN <<48, 120>> ELSE <<>>) \o HexPairs(buffer, cs)

\* HexStr<N, P, U>::encode
HexStrEncode(buf, value, N, P, U) ==
    LET buffer == StageBytes(Fill(N, 0), value, 0)
    IN  buf \o const_format(buffer, P, charset(U))

(***************************************************************************)
(* string/urlencoding.rs                                                   *)
(***************************************************************************)
\* the characters the texts given to Encode / Decode are made of:
\* '%', '4', 'f', 'F', 'g', ' ', '~' and the two-byte character U+00E9
UrlChars == { <<37>>, <<52>>, <<102>>, <<70>>, <<103>>, <<32>>, <<126>>, <<195, 169>> }

\* the bytes of a sequence of characters
RECURSIVE Flatten(_)
Flatten(parts) == IF parts = <<>> THEN <<>> ELSE parts[1] \o Flatten(Tail(parts))

\* the texts given to Encode / Decode
UrlTexts == { Flatten(chars) : chars \in SeqsUpTo(UrlChars, MaxChars) }

\* to_hex_digit
\* Mutant: the digits above 9 are lowercase.
to_hex_digit_lower(digit) == IF digit <= 9 THEN 48 + digit ELSE 97 - 10 + digit

to_hex_digit(digit) == IF digit <= 9 THEN 48 + digit ELSE 65 - 10 + digit

\* matches!(byte, b'0'..=b'9' | b'A'..=b'Z' | b'a'..=b'z' | b'-' | b'.' | b'_' | b'~')
\* Mutant: '%' is passed through as well.
is_unreserved_or_percent(byte) ==
    \/ byte \in 48..57
    \/ byte \in 65..90
    \/ byte \in 97..122
    \/ byte \in {45, 46, 95, 126, 37}

is_unreserved(byte) ==
    \/ byte \in 48..57
    \/ byte \in 65..90
    \/ byte \in 97..122
    \/ byte \in {45, 46, 95, 126}

\* the for_each of Encode::encode_to_buf over the rendered payload
RECURSIVE EscapeBytes(_, _)
EscapeBytes(buf, bytes) ==
    IF bytes = <<>> THEN buf
    ELSE LET byte == bytes[1] IN
         IF is_unreserved(byte)
         THEN EscapeBytes(Append(buf, byte), Tail(bytes))
         ELSE EscapeBytes(buf \o <<37, to_hex_digit(byte \div 16),
                                       to_hex_digit(byte % 16)>>, Tail(bytes))

\* <&str as StringT>::encode_to_buf
str_encode_to_buf(buf, text) == buf \o text

\* Encode<T>::encode_to_buf, the payload a text
UrlEncode_encode_to_buf(buf, inner) ==
    LET rendered == str_encode_to_buf(<<>>, inner)
    IN  EscapeBytes(buf, rendered)

\* from_hex_digit; None is -1
\* Mutant: the lowercase digits are not accepted.
from_hex_digit_upper_only(digit) ==
    IF digit \in 48..57 THEN digit - 48
    ELSE IF digit \in 65..70 THEN digit - 65 + 10
    ELSE 0 - 1

from_hex_digit(digit) ==
    IF digit \in 48..57 THEN digit - 48
    ELSE IF digit \in 65..70 THEN digit - 65 + 10
    ELSE IF digit \in 97..102 THEN digit - 97 + 10
    ELSE 0 - 1

\* encoded_bytes.split(|&c| c == b'%'): the segments between the '%' bytes
\* (one segment, possibly empty, when there is no '%')
RECURSIVE split_percent(_, _)
split_percent(bytes, segment) ==
    IF bytes = <<>> THEN <<segment>>
    ELSE IF bytes[1] = 37 THEN <<segment>> \o split_percent(Tail(bytes), <<>>)
    ELSE split_percent(Tail(bytes), Append(segment, bytes[1]))

\* the body of the loop of Decode::encode_to_buf for one escaped_part
DecodeEscapedPart(buf, escaped_part) ==
    LET ok == /\ Len(escaped_part) >= 2
              /\ from_hex_digit(escaped_part[1]) >= 0
              /\ from_hex_digit(escaped_part[2]) >= 0
    IN  IF ok
        THEN Append(buf, ((from_hex_digit(escaped_part[1]) * 16) % 256)
                             + from_hex_digit(escaped_part[2]))
                 \o SubSeq(escaped_part, 3, Len(escaped_part))
        ELSE (buf \o <<37>>) \o escaped_part

RECURSIVE DecodeEscapedParts(_, _)
DecodeEscapedParts(buf, parts) ==
    IF parts = <<>> THEN buf
    ELSE DecodeEscapedParts(DecodeEscapedPart(buf, parts[1]), Tail(parts))

\* Decode<T>::encode_to_buf
UrlDecode_encode_to_buf(buf, inner) ==
    LET parts == split_percent(inner, <<>>)
    IN  DecodeEscapedParts(buf \o parts[1], Tail(parts))

(***************************************************************************)
(* string_v2/general/string.rs, string_v2/general/iterator.rs,             *)
(* string_v2/general/array.rs, string_v2.rs                                *)
(***************************************************************************)
\* the code points pushed as char: 'A', U+00E9, U+4F60, U+1F600
Chars == {65, 233, 20320, 128512}

\* char::len_utf8
len_utf8(c) ==
    IF c < 128 THEN 1 ELSE IF c < 2048 THEN 2 ELSE IF c < 65536 THEN 3 ELSE 4

\* char::encode_utf8
encode_utf8(c) ==
    IF c < 128 THEN <<c>>
    ELSE IF c < 2048 THEN <<192 + (c \div 64), 128 + (c % 64)>>
    ELSE IF c < 65536
    THEN <<224 + (c \div 4096), 128 + ((c \div 64) % 64), 128 + (c % 64)>>
    ELSE <<240 + (c \div 262144), 128 + ((c \div 4096) % 64),
           128 + ((c \div 64) % 64), 128 + (c % 64)>>

\* <char as StringT>::encode_to_buf
char_encode_to_buf(buf, c) ==
    IF len_utf8(c) = 1 THEN Append(buf, c % 256) ELSE buf \o encode_utf8(c)

\* <&str as StringT>::encode_to_buf_with_separator
str_encode_to_buf_with_separator(buf, text, separator) ==
    (buf \o text) \o separator

\* IterWrapper::encode_to_buf_with_separator, the items texts
\*   for item in self.inner { item.encode_to_buf_with_separator(string, separator) }
RECURSIVE IterWrapper_encode_to_buf_with_separator(_, _, _)
IterWrapper_encode_to_buf_with_separator(buf, items, separator) ==
    IF items = <<>> THEN buf
    ELSE IterWrapper_encode_to_buf_with_separator(
             str_encode_to_buf_with_separator(buf, items[1], separator),
             Tail(items), separator)

\* impl_for_array_or_slice_like: [T; N], &[T; N], &[T] and Vec<T> all hand
\* their iterator to IterWrapper
\* Mutant: the sequence trims the separator after its last element itself.
array_encode_to_buf_with_separator_self_trimmed(buf, items, separator) ==
    LET pushed == IterWrapper_encode_to_buf_with_separator(buf, items, separator)
    IN  IF items = <<>> THEN pushed
        ELSE SubSeq(pushed, 1, Len(pushed) - Len(separator))

array_encode_to_buf_with_separator(buf, items, separator) ==
    IterWrapper_encode_to_buf_with_separator(buf, items, separator)

\* remove_separator_tailing!
\* Mutant: the trailing separator is left in place.
remove_separator_tailing_skipped(buf, separator) == buf

remove_separator_tailing(buf, separator) ==
    LET current_len == Len(buf) IN
    IF current_len >= Len(separator)
    THEN SubSeq(buf, 1, current_len - Len(separator))
    ELSE buf

\* <String as PushAnyT>::push_any_with_separator, the value a sequence
push_any_with_separator(buf, items, sep) ==
    remove_separator_tailing(array_encode_to_buf_with_separator(buf, items, sep), sep)

\* StringExtT::to_string_ext_with_separator, the value a sequence
to_string_ext_with_separator(items, separator) ==
    LET string_buf == <<>>
    IN  push_any_with_separator(string_buf, items, separator)

\* the texts the joined sequences are made of: "", "a", "," and "bc"
SepTexts == { <<>>, <<97>>, <<44>>, <<98, 99>> }

\* the separators drawn: "", "," and ", "
Separators == { <<>>, <<44>>, <<44, 32>> }

\* the kinds of sequence: [T; N], &[T] and Vec<T>
SequenceKinds == {"array", "slice", "vec"}

(***************************************************************************)
(* string/general.rs, string/general/tuple.rs,                             *)
(* string_v2/general/iterator.rs: values of any encodable type             *)
(***************************************************************************)
\* a value is a record: its kind, its text (a &str) and its parts
\* &str
Str(text) == [kind |-> "str", text |-> text, items |-> <<>>]

\* Option<T>
None == [kind |-> "None", text |-> <<>>, items |-> <<>>]

Some(inner) == [kind |-> "Some", text |-> <<>>, items |-> <<inner>>]

\* Result<T, E>
Err == [kind |-> "Err", text |-> <<>>, items |-> <<>>]

Ok(inner) == [kind |-> "Ok", text |-> <<>>, items |-> <<inner>>]

\* (T1, .., Tn)
Tuple(items) == [kind |-> "tuple", text |-> <<>>, items |-> items]

\* SeplessTuple { inner: (T1, .., Tn) }
SeplessTuple(inner) == [kind |-> "SeplessTuple", text |-> <<>>, items |-> inner]

\* Vec<T>, [T; N], &[T]
Vec(items) == [kind |-> "Vec", text |-> <<>>, items |-> items]

\* std::iter::Map over the items of a sequence
Map(items) == [kind |-> "Map", text |-> <<>>, items |-> items]

\* StringT::encode_to_buf by the type of the value; EncodeEach is the
\* unrolled `$name.encode_to_buf(string);` of a tuple and the `for item`
\* loop of IterWrapper
RECURSIVE StringT_encode_to_buf(_, _), EncodeEach(_, _)
StringT_encode_to_buf(buf, value) ==
    CASE value.kind = "str" -> str_encode_to_buf(buf, value.text)
      [] value.kind \in {"None", "Err"} -> buf
      [] value.kind \in {"Some", "Ok"} ->
            StringT_encode_to_buf(buf, value.items[1])
      [] value.kind = "tuple" -> EncodeEach(buf, value.items)
      [] value.kind = "SeplessTuple" -> EncodeEach(buf, value.items)
      [] value.kind \in {"Vec", "Map"} -> EncodeEach(buf, value.items)

EncodeEach(buf, items) ==
    IF items = <<>> THEN buf
    ELSE EncodeEach(StringT_encode_to_buf(buf, items[1]), Tail(items))

\* <SeplessTuple<(..)> as StringT>::encode_to_buf_with_separator
\* Mutant: the wrapped pair does not end its element with the separator.
SeplessTuple_encode_to_buf_with_separator_silent(buf, inner, separator) ==
    EncodeEach(buf, inner)

SeplessTuple_encode_to_buf_with_separator(buf, inner, separator) ==
    \* self.inner.encode_to_buf(string); string.extend(separator.as_bytes());
    EncodeEach(buf, inner) \o separator

\* StringT::encode_to_buf_with_separator by the type of the value
RECURSIVE StringT_encode_to_buf_with_separator(_, _, _), EncodeEachWithSeparator(_, _, _)
StringT_encode_to_buf_with_separator(buf, value, separator) ==
    CASE value.kind = "str" ->
            str_encode_to_buf_with_separator(buf, value.text, separator)
      [] value.kind \in {"None", "Err"} -> buf
      [] value.kind \in {"Some", "Ok"} ->
            StringT_encode_to_buf_with_separator(buf, value.items[1], separator)
      [] value.kind = "tuple" ->
            EncodeEachWithSeparator(buf, value.items, separator)
      [] value.kind = "SeplessTuple" ->
            SeplessTuple_encode_to_buf_with_separator(buf, value.items, separator)
      [] value.kind \in {"Vec", "Map"} ->
            EncodeEachWithSeparator(buf, value.items, separator)

EncodeEachWithSeparator(buf, items, separator) ==
    IF items = <<>> THEN buf
    ELSE EncodeEachWithSeparator(
             StringT_encode_to_buf_with_separator(buf, items[1], separator),
             Tail(items), separator)

\* Mutant of with_prefix: every type takes the default of the trait.
with_prefix_default(value, prefix) == SeplessTuple(<<prefix, value>>)

\* StringExtT::with_prefix: the default wraps the pair in a SeplessTuple,
\* Option and Result map over the present value, a tuple and a sequence
\* wrap each of their elements
with_prefix(value, prefix) ==
    CASE value.kind \in {"None", "Err"} -> value
      [] value.kind = "Some" -> Some(SeplessTuple(<<prefix, value.items[1]>>))
      [] value.kind = "Ok" -> Ok(SeplessTuple(<<prefix, value.items[1]>>))
      [] value.kind = "tuple" ->
            Tuple([i \in 1..Len(value.items) |->
                      SeplessTuple(<<prefix, value.items[i]>>)])
      [] value.kind \in {"Vec", "Map"} ->
            Map([i \in 1..Len(value.items) |->
                    SeplessTuple(<<prefix, value.items[i]>>)])
      [] OTHER -> SeplessTuple(<<prefix, value>>)

\* StringExtT::with_suffix
with_suffix(value, suffix) ==
    CASE value.kind \in {"None", "Err"} -> value
      [] value.kind = "Some" -> Some(SeplessTuple(<<value.items[1], suffix>>))
      [] value.kind = "Ok" -> Ok(SeplessTuple(<<value.items[1], suffix>>))
      [] value.kind = "tuple" ->
            Tuple([i \in 1..Len(value.items) |->
                      SeplessTuple(<<value.items[i], suffix>>)])
      [] value.kind \in {"Vec", "Map"} ->
            Map([i \in 1..Len(value.items) |->
                    SeplessTuple(<<value.items[i], suffix>>)])
      [] OTHER -> SeplessTuple(<<value, suffix>>)

\* <String as PushAnyT>::push_any of any value
PushAnyT_push_any(buf, value) == StringT_encode_to_buf(buf, value)

\* <String as PushAnyT>::push_any_with_separator of any value
PushAnyT_push_any_with_separator(buf, value, sep) ==
    remove_separator_tailing(StringT_encode_to_buf_with_separator(buf, value, sep), sep)

\* StringExtT::to_string_ext_with_separator of any value
StringExtT_to_string_ext_with_separator(value, separator) ==
    LET string_buf == <<>>
    IN  PushAnyT_push_any_with_separator(string_buf, value, separator)

\* the texts the payloads are made of: "a" and "bc"
WrapTexts == { <<97>>, <<98, 99>> }

\* the payloads: a &str, an Option, a Result, a tuple and a Vec
Payloads ==
    {Str(text) : text \in WrapTexts}
        \cup {Some(Str(text)) : text \in WrapTexts} \cup {None}
        \cup {Ok(Str(text)) : text \in WrapTexts} \cup {Err}
        \cup {Tuple(<<Str(<<97>>), Str(<<98, 99>>)>>), Vec(<<Str(<<97>>), Str(<<98, 99>>)>>)}

\* the prefixes and suffixes: "p", None and Some("q")
Affixes == { Str(<<112>>), None, Some(Str(<<113>>)) }

\* the chains of with_prefix / with_suffix calls applied to a payload
Wrappings ==
    SeqsUpTo([op : {"with_prefix", "with_suffix"}, affix : Affixes], MaxWraps)

\* the expression payload.with_prefix(p).with_suffix(q)..., the calls in order
RECURSIVE Wrapped(_, _)
Wrapped(payload, wraps) ==
    IF wraps = <<>> THEN payload
    ELSE Wrapped(IF wraps[1].op = "with_prefix"
                 THEN with_prefix(payload, wraps[1].affix)
                 ELSE with_suffix(payload, wraps[1].affix),
                 Tail(wraps))

\* the Rust type of a payload: the elements of a sequence share one
TypeOf(value) ==
    CASE value.kind = "str" -> "&str"
      [] value.kind \in {"None", "Some"} -> "Option"
      [] value.kind \in {"Ok", "Err"} -> "Result"
      [] OTHER -> value.kind

\* the plain elements standing next to a wrapped one in a tuple
Neighbours ==
    { [payload |-> Str(<<97>>), wraps |-> <<>>], [payload |-> None, wraps |-> <<>>] }

\* the elements of a joined tuple: a wrapped payload among plain neighbours
TupleElements ==
    { (before \o <<[payload |-> payload, wraps |-> wraps]>>) \o after :
        payload \in Payloads, wraps \in Wrappings,
        before \in SeqsUpTo(Neighbours, MaxNeighbours),
        after \in SeqsUpTo(Neighbours, MaxNeighbours) }

\* the payloads a sequence can hold: all of one type
SameTypePayloads ==
    { payloads \in SeqsUpTo(Payloads, MaxNeighbours + 1) \ {<<>>} :
        \A i \in 1..Len(payloads) : TypeOf(payloads[i]) = TypeOf(payloads[1]) }

\* the elements of a joined sequence: payloads of one type wrapped alike
VecElements ==
    { [i \in 1..Len(payloads) |-> [payload |-> payloads[i], wraps |-> wraps]] :
        payloads \in SameTypePayloads, wraps \in Wrappings }

\* the joined value: the tuple or the Vec of the wrapped payloads
JoinedValue(context, elements) ==
    LET items == [i \in 1..Len(elements) |->
                     Wrapped(elements[i].payload, elements[i].wraps)]
    IN  IF context = "tuple" THEN Tuple(items) ELSE Vec(items)

\* the element lists by the context they are joined in
JoinedElements(context) ==
    IF context = "tuple" THEN TupleElements ELSE VecElements

(***************************************************************************)
(* string/base64.rs, base64.rs and the base64 engine they call             *)
(***************************************************************************)
\* enum_padding!(STANDARD STANDARD_NO_PAD URL_SAFE URL_SAFE_NO_PAD)
Schemes == {"STANDARD", "STANDARD_NO_PAD", "URL_SAFE", "URL_SAFE_NO_PAD"}

\* the alphabet of an engine: A-Z a-z 0-9 and then "+/" or "-_"
alphabet(scheme) ==
    [i \in 1..64 |->
        IF i <= 26 THEN 64 + i
        ELSE IF i <= 52 THEN 70 + i
        ELSE IF i <= 62 THEN i - 5
        ELSE IF scheme \in {"STANDARD", "STANDARD_NO_PAD"}
        THEN (IF i = 63 THEN 43 ELSE 47)
        ELSE (IF i = 63 THEN 45 ELSE 95)]

\* the padding configuration of an engine: PAD or NO_PAD
encode_padding(scheme) == scheme \in {"STANDARD", "URL_SAFE"}

PAD_BYTE == 61

\* base64::encoded_len
encoded_len(bytes_len, padding) ==
    LET rem == bytes_len % 3
        complete_chunk_output == (bytes_len \div 3) * 4
    IN  IF rem > 0
        THEN IF padding THEN complete_chunk_output + 4
             ELSE complete_chunk_output + (IF rem = 1 THEN 2 ELSE 3)
        ELSE complete_chunk_output

\* Engine::internal_encode: three input bytes to four symbols, the last one
\* or two bytes to two or three symbols
RECURSIVE internal_encode(_, _)
internal_encode(input, table) ==
    IF input = <<>> THEN <<>>
    ELSE IF Len(input) = 1
    THEN <<table[(input[1] \div 4) + 1], table[((input[1] % 4) * 16) + 1]>>
    ELSE IF Len(input) = 2
    THEN <<table[(input[1] \div 4) + 1],
           table[((input[1] % 4) * 16) + (input[2] \div 16) + 1],
           table[((input[2] % 16) * 4) + 1]>>
    ELSE <<table[(input[1] \div 4) + 1],
           table[((input[1] % 4) * 16) + (input[2] \div 16) + 1],
           table[((input[2] % 16) * 4) + (input[3] \div 64) + 1],
           table[(input[3] % 64) + 1]>>
             \o internal_encode(SubSeq(input, 4, Len(input)), table)

\* base64::encode::add_padding
\* Mutant: one padding byte at most.
add_padding_single(unpadded_output_len) ==
    Fill(IF unpadded_output_len % 4 = 0 THEN 0 ELSE 1, PAD_BYTE)

add_padding(unpadded_output_len) ==
    Fill((4 - (unpadded_output_len % 4)) % 4, PAD_BYTE)

\* Engine::encode_slice: Err(OutputSliceTooSmall) when the slice is shorter
\* than the encoded text, else the text written at its start
Engine_encode_slice(scheme, input, output_len) ==
    IF output_len < encoded_len(Len(input), encode_padding(scheme))
    THEN [ok |-> FALSE, written |-> <<>>]
    ELSE LET symbols == internal_encode(input, alphabet(scheme))
         IN  [ok |-> TRUE,
              written |-> IF encode_padding(scheme)
                          THEN symbols \o add_padding(Len(symbols))
                          ELSE symbols]

\* Mutant: the slice handed to the engine is n * 4 / 3 bytes, without the 4.
Base64Str_Encode_encode_to_buf_tight(buf, inner, scheme) ==
    LET current_len == Len(buf)
        base64_len == (Len(inner) * 4) \div 3
        result == Engine_encode_slice(scheme, inner, base64_len)
        bytes_written == IF result.ok THEN Len(result.written) ELSE 0
    IN  SubSeq((buf \o result.written) \o Fill(base64_len, 0),
               1, current_len + bytes_written)

\* <Base64Str<T, $name, Encode> as StringT>::encode_to_buf and
\* encode_to_bytes_buf; the bytes between the written text and target_len
\* are never read: truncate drops them
Base64Str_Encode_encode_to_buf(buf, inner, scheme) ==
    LET current_len == Len(buf)
        base64_len == ((Len(inner) * 4) \div 3) + 4
        result == Engine_encode_slice(scheme, inner, base64_len)
        bytes_written == IF result.ok THEN Len(result.written) ELSE 0
    IN  SubSeq((buf \o result.written) \o Fill(base64_len, 0),
               1, current_len + bytes_written)

\* the decode table of an engine: the index of the symbol, or INVALID_VALUE
INVALID_VALUE == 255

decode_table(byte, scheme) ==
    IF \E i \in 1..64 : alphabet(scheme)[i] = byte
    THEN (CHOOSE i \in 1..64 : alphabet(scheme)[i] = byte) - 1
    ELSE INVALID_VALUE

\* the decode padding mode of an engine: PAD requires canonical padding,
\* NO_PAD requires none
RequireCanonical(scheme) == encode_padding(scheme)

\* decode_helper, the quads before the last one: each quad of valid symbols
\* writes three bytes, the first invalid byte ends the decoding with an error
RECURSIVE decode_quads(_, _, _)
decode_quads(quads, scheme, output) ==
    IF quads = <<>> THEN [ok |-> TRUE, output |-> output]
    ELSE LET m == [i \in 1..4 |-> decode_table(quads[i], scheme)]
         IN  IF \E i \in 1..4 : m[i] = INVALID_VALUE
             THEN [ok |-> FALSE, output |-> output]
             ELSE decode_quads(
                      SubSeq(quads, 5, Len(quads)), scheme,
                      output \o <<(m[1] * 4) + (m[2] \div 16),
                                  ((m[2] % 16) * 16) + (m[3] \div 4),
                                  ((m[3] % 4) * 64) + m[4]>>)

\* decode_suffix, the loop over the last quad: the morsels and the count of
\* padding bytes, or an error for padding in the first two places, a symbol
\* after padding, or an invalid byte
RECURSIVE scan_suffix(_, _, _, _, _)
scan_suffix(suffix, leftover_index, scheme, morsels, padding_bytes_count) ==
    IF leftover_index >= Len(suffix)
    THEN [ok |-> TRUE, morsels |-> morsels, padding_bytes_count |-> padding_bytes_count]
    ELSE LET b == suffix[leftover_index + 1]
         IN  IF b = PAD_BYTE
             THEN IF leftover_index < 2
                  THEN [ok |-> FALSE, morsels |-> morsels,
                        padding_bytes_count |-> padding_bytes_count]
                  ELSE scan_suffix(suffix, leftover_index + 1, scheme, morsels,
                                   padding_bytes_count + 1)
             ELSE IF padding_bytes_count > 0 \/ decode_table(b, scheme) = INVALID_VALUE
             THEN [ok |-> FALSE, morsels |-> morsels,
                   padding_bytes_count |-> padding_bytes_count]
             ELSE scan_suffix(suffix, leftover_index + 1, scheme,
                              Append(morsels, decode_table(b, scheme)),
                              padding_bytes_count)

\* the morsels of the last quad as one number, six bits each
RECURSIVE leftover_num(_)
leftover_num(morsels) ==
    IF morsels = <<>> THEN 0
    ELSE (leftover_num(SubSeq(morsels, 1, Len(morsels) - 1)) * 64)
            + morsels[Len(morsels)]

\* the `count` low bytes of a number, most significant first
RECURSIVE to_be_bytes(_, _)
to_be_bytes(num, count) ==
    IF count = 0 THEN <<>>
    ELSE Append(to_be_bytes(num \div 256, count - 1), num % 256)

\* decode_suffix: length, padding mode and trailing bits are checked, then
\* the bytes of the last quad are written
decode_suffix(suffix, scheme, output) ==
    LET scan == scan_suffix(suffix, 0, scheme, <<>>, 0)
        morsels_in_leftover == Len(scan.morsels)
        leftover_bytes_to_append == (morsels_in_leftover * 6) \div 8
        trailing_bits == (morsels_in_leftover * 6) - (leftover_bytes_to_append * 8)
        num == leftover_num(scan.morsels)
    IN  IF ~scan.ok THEN [ok |-> FALSE, output |-> output]
        ELSE IF suffix # <<>> /\ morsels_in_leftover < 2
        THEN [ok |-> FALSE, output |-> output]
        ELSE IF RequireCanonical(scheme)
                /\ (scan.padding_bytes_count + morsels_in_leftover) % 4 # 0
        THEN [ok |-> FALSE, output |-> output]
        ELSE IF ~RequireCanonical(scheme) /\ scan.padding_bytes_count > 0
        THEN [ok |-> FALSE, output |-> output]
        ELSE IF num % (2 ^ trailing_bits) # 0
        THEN [ok |-> FALSE, output |-> output]
        ELSE [ok |-> TRUE,
              output |-> output \o to_be_bytes(num \div (2 ^ trailing_bits),
                                               leftover_bytes_to_append)]

\* Engine::internal_decode: the quads before the last, then the last one;
\* `output` holds what was written, also when the decoding failed
internal_decode(input, scheme) ==
    LET remainder_len == Len(input) % 4
        nonterminal_quads_len ==
            IF Len(input) = 0 THEN 0
            ELSE IF remainder_len = 0 THEN Len(input) - 4
            ELSE Len(input) - remainder_len
        quads == decode_quads(SubSeq(input, 1, nonterminal_quads_len), scheme, <<>>)
    IN  IF ~quads.ok THEN quads
        ELSE decode_suffix(SubSeq(input, nonterminal_quads_len + 1, Len(input)),
                           scheme, quads.output)

\* Engine::decode: Ok(the decoded bytes) or Err
Engine_decode(input, scheme) ==
    LET result == internal_decode(input, scheme)
    IN  IF result.ok THEN [ok |-> TRUE, data |-> result.output]
        ELSE [ok |-> FALSE, data |-> <<>>]

\* Engine::internal_decoded_len_estimate: three bytes for each started quad
decoded_len_estimate(input_len) ==
    ((input_len \div 4) + (IF input_len % 4 > 0 THEN 1 ELSE 0)) * 3

\* Engine::decode_vec: the Vec is resized with zeros to the estimate, the
\* bytes are decoded into the new part, and the Vec is truncated to what was
\* written only when the decoding succeeded (the error returns before)
Engine_decode_vec(input, buffer, scheme) ==
    LET starting_output_len == Len(buffer)
        total_len_estimate == decoded_len_estimate(Len(input)) + starting_output_len
        result == internal_decode(input, scheme)
        resized == (buffer \o result.output)
                      \o Fill(total_len_estimate - starting_output_len
                                 - Len(result.output), 0)
    IN  IF result.ok
        THEN SubSeq(resized, 1, starting_output_len + Len(result.output))
        ELSE resized

\* core::str::from_utf8(..).is_ok(): the width of each first byte and the
\* ranges of the bytes that follow it
RECURSIVE from_utf8_is_ok(_, _)
from_utf8_is_ok(v, index) ==
    IF index > Len(v) THEN TRUE
    ELSE LET first == v[index]
             width == IF first < 128 THEN 1
                      ELSE IF first \in 194..223 THEN 2
                      ELSE IF first \in 224..239 THEN 3
                      ELSE IF first \in 240..244 THEN 4 ELSE 0
             next(k) == IF index + k > Len(v) THEN 256 ELSE v[index + k]
         IN  CASE width = 1 -> from_utf8_is_ok(v, index + 1)
               [] width = 2 ->
                    /\ next(1) \in 128..191
                    /\ from_utf8_is_ok(v, index + 2)
               [] width = 3 ->
                    /\ \/ first = 224 /\ next(1) \in 160..191
                       \/ first \in 225..236 /\ next(1) \in 128..191
                       \/ first = 237 /\ next(1) \in 128..159
                       \/ first \in 238..239 /\ next(1) \in 128..191
                    /\ next(2) \in 128..191
                    /\ from_utf8_is_ok(v, index + 3)
               [] width = 4 ->
                    /\ \/ first = 240 /\ next(1) \in 144..191
                       \/ first \in 241..243 /\ next(1) \in 128..191
                       \/ first = 244 /\ next(1) \in 128..143
                    /\ next(2) \in 128..191
                    /\ next(3) \in 128..191
                    /\ from_utf8_is_ok(v, index + 4)
               [] OTHER -> FALSE

\* Mutant: the decoded bytes are appended without the UTF-8 check.
Base64Str_Decode_encode_to_buf_unchecked(buf, inner, scheme) ==
    buf \o Engine_decode(inner, scheme).data

\* <Base64Str<T, $name, Decode> as StringT>::encode_to_buf
Base64Str_Decode_encode_to_buf(buf, inner, scheme) ==
    LET data == Engine_decode(inner, scheme).data   \* unwrap_or_default
    IN  IF from_utf8_is_ok(data, 1) THEN buf \o data ELSE buf

\* <Base64Str<T, $name, DecodeToAny> as StringT>::encode_to_buf
Base64Str_DecodeToAny_encode_to_buf(buf, inner, scheme) ==
    Engine_decode_vec(inner, buf, scheme)

\* <Base64Str<T, $name, DecodeToAny> as StringT>::encode_to_bytes_buf
Base64Str_DecodeToAny_encode_to_bytes_buf(buf, inner, scheme) ==
    LET decoded == Engine_decode(inner, scheme)
    IN  IF decoded.ok THEN buf \o decoded.data ELSE buf

\* b64_decode!(scheme: data): Engine::decode
b64_decode(data, scheme) == Engine_decode(data, scheme)

\* the bytes encoded: 0x00, 'h', 0xFB and 0xFF
B64Bytes == {0, 104, 251, 255}

\* the characters of the texts decoded: 'a', 'A', '/', '_' and '='
B64Chars == {97, 65, 47, 95, 61}

(***************************************************************************)
(* random.rs: fast_random, a xorshift* generator on 64-bit words           *)
(***************************************************************************)
\* a u64 is the sequence of its 64 bits, the least significant first
WordBits == 64

\* the eight bytes of a u64, the least significant first, as a word
from_le_bytes(bytes) ==
    [i \in 1..WordBits |-> (bytes[((i - 1) \div 8) + 1] \div (2 ^ ((i - 1) % 8))) % 2]

\* u64::to_le_bytes
to_le_bytes(n) ==
    [j \in 1..8 |->
        n[(8 * j) - 7] + (2 * n[(8 * j) - 6]) + (4 * n[(8 * j) - 5])
          + (8 * n[(8 * j) - 4]) + (16 * n[(8 * j) - 3]) + (32 * n[(8 * j) - 2])
          + (64 * n[(8 * j) - 1]) + (128 * n[8 * j])]

\* the word 0
ZeroWord == [i \in 1..WordBits |-> 0]

\* Wrapping<u64> >> k
shr(n, k) == SubSeq(n, k + 1, WordBits) \o Fill(k, 0)

\* Wrapping<u64> << k
shl(n, k) == Fill(k, 0) \o SubSeq(n, 1, WordBits - k)

\* Wrapping<u64> ^ Wrapping<u64>
bitxor(a, b) == [i \in 1..WordBits |-> (a[i] + b[i]) % 2]

\* the multiplier 0x2545_f491_4f6c_dd1d, its bytes the least significant first
MULTIPLIER == <<29, 221, 108, 79, 145, 244, 69, 37>>

\* u64::wrapping_mul, byte by byte: column k sums the products of the bytes
\* i and k + 1 - i and the carry; the columns above the eighth are dropped
RECURSIVE column_sum(_, _, _, _)
column_sum(a, b, k, i) ==
    IF i > k THEN 0 ELSE (a[i] * b[(k + 1) - i]) + column_sum(a, b, k, i + 1)

RECURSIVE mul_columns(_, _, _, _)
mul_columns(a, b, k, carry) ==
    IF k > 8 THEN <<>>
    ELSE LET sum == carry + column_sum(a, b, k, 1)
         IN  <<sum % 256>> \o mul_columns(a, b, k + 1, sum \div 256)

wrapping_mul(n, multiplier) ==
    from_le_bytes(mul_columns(to_le_bytes(n), multiplier, 1, 0))

\* seed(): hashes of cnt = 1, 2, .. are taken until one is not 0
RECURSIVE seed(_)
seed(hashes) ==
    IF hashes[1] # ZeroWord THEN hashes[1] ELSE seed(Tail(hashes))

\* fast_random, the body of RNG.with: the xorshift steps, the state set back
\* and the value returned
\* Mutant: the product is stored back as the state.
fast_random_stores_product(n) ==
    LET a == bitxor(n, shr(n, 12))
        b == bitxor(a, shl(a, 25))
        c == bitxor(b, shr(b, 27))
    IN  [state |-> wrapping_mul(c, MULTIPLIER), returned |-> wrapping_mul(c, MULTIPLIER)]

fast_random(n) ==
    LET a == bitxor(n, shr(n, 12))
        b == bitxor(a, shl(a, 25))
        c == bitxor(b, shr(b, 27))
    IN  [state |-> c, returned |-> wrapping_mul(c, MULTIPLIER)]

\* the hashes the seed is made of: 1, 2^63, 2^64 - 1, and the two states
\* whose first draws are 0xAB and 0x0FFF_FFFF_FFFF_FFFF
SeedHashes ==
    { from_le_bytes(bytes) :
        bytes \in { <<1, 0, 0, 0, 0, 0, 0, 0>>, <<0, 0, 0, 0, 0, 0, 0, 128>>,
                    <<255, 255, 255, 255, 255, 255, 255, 255>>,
                    <<23, 68, 254, 82, 7, 193, 65, 65>>,
                    <<44, 132, 129, 207, 247, 133, 215, 233>> } }

\* the runs of hashes seed() sees: a hash that is not 0, or 2^63 after a
\* hash that is 0
HashRuns ==
    { <<hash>> : hash \in SeedHashes }
      \cup { <<ZeroWord, from_le_bytes(<<0, 0, 0, 0, 0, 0, 0, 128>>)>> }

\* the thread-local RNG before its first use, and after `draws` draws
Unseeded == [seeded |-> FALSE, n |-> ZeroWord, draws |-> 0]

\* the thread-local cell as fast_random finds it: initialised with seed()
\* on the first use
RNG_get(rng, hashes) == IF rng.seeded THEN rng.n ELSE seed(hashes)

(***************************************************************************)
(* string_v2/rand.rs: RandHexStr                                           *)
(***************************************************************************)
\* NumStr::encode for u64 in base 16, the R > 0 loop: num % 16 is the low
\* four bits of the word and num /= 16 shifts it right by four
RECURSIVE FillDigitsU64(_, _, _, _)
FillDigitsU64(slice, num, count, cs) ==
    IF count < Len(slice)
    THEN LET digit   == num[1] + (2 * num[2]) + (4 * num[3]) + (8 * num[4])
             written == [slice EXCEPT ![count + 1] = cs[digit + 1]]
             rest    == shr(num, 4)
         IN  IF rest = ZeroWord THEN written
             ELSE FillDigitsU64(written, rest, count + 1, cs)
    ELSE slice

\* NumStr::hex_default(v).set_resize_len::<R>().encode(string), v a u64 and
\* R > 0
NumStrHexU64Encode(buf, v, R) ==
    LET current_ptr == Len(buf)
        resized == buf \o Fill(R, 48)
    IN  IF v = ZeroWord THEN resized
        ELSE LET window == SubSeq(resized, current_ptr + 1, current_ptr + R)
                 filled == FillDigitsU64(window, v, 0, HEX_CHARS_LOWER)
             IN  SubSeq(resized, 1, current_ptr) \o Reverse(filled)

\* one `NumStr::hex_default(fast_random()).set_resize_len::<R>()
\* .encode_to_buf(string)`: the buffer and the RNG after it
draw_hex(state, hashes, R) ==
    LET drawn == fast_random(RNG_get(state.rng, hashes))
    IN  [string |-> NumStrHexU64Encode(state.string, drawn.returned, R),
         rng |-> [seeded |-> TRUE, n |-> drawn.state, draws |-> state.rng.draws + 1]]

\* for _ in 0..RP { .. }
RECURSIVE repeat_draw_hex(_, _, _, _)
repeat_draw_hex(state, hashes, R, times) ==
    IF times = 0 THEN state
    ELSE repeat_draw_hex(draw_hex(state, hashes, R), hashes, R, times - 1)

\* <RandHexStr<L, RP, LP> as StringT>::encode_to_buf for L and LP in 0..=16
\* Mutant: the fragment of LP digits is left out.
RandHexStr_encode_to_buf_no_tail(buf, rng, hashes, L, RP, LP) ==
    LET state == [string |-> buf, rng |-> rng]
    IN  IF L \in 1..16 THEN repeat_draw_hex(state, hashes, L, RP) ELSE state

RandHexStr_encode_to_buf(buf, rng, hashes, L, RP, LP) ==
    LET state == [string |-> buf, rng |-> rng]
    IN  IF L \in 1..16
        THEN LET repeated == repeat_draw_hex(state, hashes, L, RP)
             IN  IF LP > 0 THEN draw_hex(repeated, hashes, LP) ELSE repeated
        ELSE state

(***************************************************************************)
(* random.rs: random_choice!                                               *)
(***************************************************************************)
\* (0..$range).for_each(|_| result.push_str($choice_set[gen_range(..)])):
\* the indices rand::thread_rng gives are `draws`, taken from the front
RECURSIVE push_choices(_, _, _, _)
push_choices(result, range, choice_set, draws) ==
    IF range = 0 THEN [result |-> result, draws |-> draws]
    ELSE push_choices(result \o choice_set[draws[1]], range - 1, choice_set,
                      Tail(draws))

\* random_choice!($range, $choice_set)
random_choice(range, choice_set, draws) ==
    push_choices(<<>>, range, choice_set, draws).result

\* the repetition $( .. result.push_str($split); )+ over the ranges
RECURSIVE push_groups(_, _, _, _, _)
push_groups(result, ranges, split, choice_set, draws) ==
    IF ranges = <<>> THEN result
    ELSE LET pushed == push_choices(result, ranges[1], choice_set, draws)
         IN  push_groups(pushed.result \o split, Tail(ranges), split, choice_set,
                         pushed.draws)

\* random_choice!($($range),+; $split; $choice_set)
\* Mutant: the result is not truncated.
random_choice_split_untrimmed(ranges, split, choice_set, draws) ==
    push_groups(<<>>, ranges, split, choice_set, draws)

random_choice_split(ranges, split, choice_set, draws) ==
    LET result == push_groups(<<>>, ranges, split, choice_set, draws)
    IN  SubSeq(result, 1, Len(result) - Len(split))

\* the candidate sets: digits with a candidate of two characters, a set
\* holding the separator "-" itself, a set of one candidate
ChoiceSets == { <<<<48>>, <<49, 48>>>>, <<<<97>>, <<45>>>>, <<<<97, 98>>>> }

\* the separators "-", "::" and ""
Splits == { <<45>>, <<58, 58>>, <<>> }

\* the lists of group sizes
RangeLists == UNION { [1..g -> 0..MaxRange] : g \in 1..MaxGroups }

RECURSIVE SumOf(_)
SumOf(ranges) == IF ranges = <<>> THEN 0 ELSE ranges[1] + SumOf(Tail(ranges))

\* what the generator can give for `total` draws from a set of `size`
Draws(total, size) == [1..total -> 1..size]

(***************************************************************************)
(* string.rs, string/slice_sep.rs: StringExtT with SeparatorT, SliceSep    *)
(*                                                                         *)
(* The operators work on a record `out` holding the buffer, whether the    *)
(* call has panicked, and whether the build checks integer overflow.       *)
(***************************************************************************)
\* a separator of type char and one of type &str, as their UTF-8 bytes
CharSep(text) == [kind |-> "char", text |-> text]
StrSep(text) == [kind |-> "&str", text |-> text]

\* SliceSep { inner, separator }; the separator () is slice_sep!(inner)
SliceSep(inner, separator) ==
    [kind |-> "SliceSep", text |-> separator.text, items |-> <<inner>>,
     separator |-> separator.kind]

UnitSep == [kind |-> "()", text |-> <<>>]

\* the separator stored in a SliceSep
separator_of(value) == [kind |-> value.separator, text |-> value.text]

\* the panic of a call; nothing after it is executed
panic(out) == [out EXCEPT !.panicked = TRUE]

\* vec.len() - n in a usize: with overflow checks a panic below zero;
\* without them the difference wraps to a length above vec.len(), for
\* which Vec::truncate does nothing and slice::get gives None

\* <char as SeparatorT>::remove_end
char_remove_end(text, out) ==
    LET vec == out.buf
        len == Len(text)
    IN  IF len = 1
        THEN IF vec # <<>> /\ vec[Len(vec)] = text[1]
             THEN [out EXCEPT !.buf = SubSeq(vec, 1, Len(vec) - 1)]
             ELSE out
        ELSE IF Len(vec) < len
             THEN IF out.overflow_checks THEN panic(out) ELSE out
             ELSE IF SubSeq(vec, (Len(vec) - len) + 1, Len(vec)) = text
                  THEN IF Len(vec) < 4
                       THEN IF out.overflow_checks THEN panic(out) ELSE out
                       ELSE [out EXCEPT !.buf = SubSeq(vec, 1, Len(vec) - 4)]
                  ELSE out

\* <&str as SeparatorT>::remove_end
str_remove_end(text, out) ==
    LET vec == out.buf
    IN  IF Len(vec) < Len(text)
        THEN IF out.overflow_checks THEN panic(out) ELSE out
        ELSE [out EXCEPT !.buf = SubSeq(vec, 1, Len(vec) - Len(text))]

\* SeparatorT::remove_end
SeparatorT_remove_end(separator, out) ==
    IF out.panicked THEN out
    ELSE IF separator.kind = "char" THEN char_remove_end(separator.text, out)
    ELSE str_remove_end(separator.text, out)

\* <char as StringExtT>::push_to_string, <&str as StringExtT>::push_to_string
extend(out, text) == IF out.panicked THEN out ELSE [out EXCEPT !.buf = @ \o text]

RECURSIVE StringExtT_push_to_string(_, _), PushEach(_, _)
RECURSIVE StringExtT_push_to_string_with_separator(_, _, _)
RECURSIVE PushEachWithSeparator(_, _, _)

\* <SliceSep<S, T> as StringExtT>::push_to_string and that of SliceSep<(), T>
SliceSep_push_to_string(out, value) ==
    IF value.separator = "()"
    THEN StringExtT_push_to_string(out, value.items[1])
    ELSE SeparatorT_remove_end(separator_of(value),
             StringExtT_push_to_string_with_separator(out, value.items[1],
                                                      separator_of(value)))

\* StringExtT::push_to_string of &str, Option, the tuples, Vec and SliceSep
StringExtT_push_to_string(out, value) ==
    CASE value.kind = "str" -> extend(out, value.text)
      [] value.kind = "None" -> out
      [] value.kind = "Some" -> StringExtT_push_to_string(out, value.items[1])
      [] value.kind \in {"tuple", "Vec"} -> PushEach(out, value.items)
      [] value.kind = "SliceSep" -> SliceSep_push_to_string(out, value)

PushEach(out, items) ==
    IF items = <<>> THEN out
    ELSE PushEach(StringExtT_push_to_string(out, items[1]), Tail(items))

\* StringExtT::push_to_string_with_separator: the default of the trait for
\* &str and SliceSep, the own ones of Option, the tuples and Vec
StringExtT_push_to_string_with_separator(out, value, separator) ==
    CASE value.kind \in {"str", "SliceSep"} ->
            extend(StringExtT_push_to_string(out, value), separator.text)
      [] value.kind = "None" -> out
      [] value.kind = "Some" ->
            StringExtT_push_to_string_with_separator(out, value.items[1], separator)
      [] value.kind = "tuple" -> PushEachWithSeparator(out, value.items, separator)
      [] value.kind = "Vec" ->
            LET pushed == PushEachWithSeparator(out, value.items, separator)
            IN  IF value.items # <<>>
                THEN extend(SeparatorT_remove_end(separator, pushed), separator.text)
                ELSE pushed

PushEachWithSeparator(out, items, separator) ==
    IF items = <<>> THEN out
    ELSE PushEachWithSeparator(
             StringExtT_push_to_string_with_separator(out, items[1], separator),
             Tail(items), separator)

\* StringExt::push
StringExt_push(out, value) == StringExtT_push_to_string(out, value)

\* str_concat!(sep = $sep; $($x),*): push_with_separator of each and
\* into_string_remove_tail
str_concat_sep(out, separator, xs) ==
    SeparatorT_remove_end(separator, PushEachWithSeparator(out, xs, separator))

\* the separators: ',', the three-byte character U+20AC, ", " and ""
SliceSeparators ==
    { CharSep(<<44>>), CharSep(<<226, 130, 172>>), StrSep(<<44, 32>>), StrSep(<<>>) }

\* the texts of the elements: "a", "bc", "" and ","
SliceTexts == { <<97>>, <<98, 99>>, <<>>, <<44>> }

\* the inner values of a SliceSep: vectors of up to MaxSlice texts, a pair, a
\* text alone and vectors with absent elements
SliceInners ==
    { Vec([i \in 1..Len(texts) |-> Str(texts[i])]) :
        texts \in SeqsUpTo(SliceTexts, MaxSlice) }
      \cup { Tuple(<<Str(<<97>>), Str(<<98, 99>>)>>), Str(<<97>>),
             Vec(<<Some(Str(<<97>>)), None>>), Vec(<<None>>) }

(***************************************************************************)
(* hash.rs: calc_hash!, with the digests of the md5 and sha2 crates and    *)
(* the hexadecimal buffer of const_hex it calls.                           *)
(*                                                                         *)
(* A word of 32 or 64 bits is the sequence of its bits, the least          *)
(* significant first; a constant word is written as its 16-bit limbs, the  *)
(* most significant first.                                                 *)
(***************************************************************************)
const_word(limbs) ==
    LET n == Len(limbs)
    IN  SubSeq([i \in 1..(16 * n) |->
                   (limbs[n - ((i - 1) \div 16)] \div (2 ^ ((i - 1) % 16))) % 2],
               1, 16 * n)

\* u32::from_le_bytes
word_from_le_bytes(bytes) ==
    SubSeq([i \in 1..(8 * Len(bytes)) |->
               (bytes[((i - 1) \div 8) + 1] \div (2 ^ ((i - 1) % 8))) % 2],
           1, 8 * Len(bytes))

\* u32::from_be_bytes, u64::from_be_bytes
word_from_be_bytes(bytes) ==
    SubSeq([i \in 1..(8 * Len(bytes)) |->
               (bytes[Len(bytes) - ((i - 1) \div 8)] \div (2 ^ ((i - 1) % 8))) % 2],
           1, 8 * Len(bytes))

\* the byte of a word that holds the bits 8j+1 .. 8j+8
byte_of(w, j) ==
    w[(8 * j) + 1] + (2 * w[(8 * j) + 2]) + (4 * w[(8 * j) + 3])
      + (8 * w[(8 * j) + 4]) + (16 * w[(8 * j) + 5]) + (32 * w[(8 * j) + 6])
      + (64 * w[(8 * j) + 7]) + (128 * w[(8 * j) + 8])

\* u32::to_le_bytes
word_to_le_bytes(w) == SubSeq([j \in 1..(Len(w) \div 8) |-> byte_of(w, j - 1)],
                              1, Len(w) \div 8)

\* u32::to_be_bytes, u64::to_be_bytes
word_to_be_bytes(w) ==
    SubSeq([j \in 1..(Len(w) \div 8) |-> byte_of(w, (Len(w) \div 8) - j)],
           1, Len(w) \div 8)

\* the 16 bits of a word from bit 16j+1, as a number
limb_of(w, j) ==
    LET k == 16 * j
    IN  (((w[k + 1] + (2 * w[k + 2])) + ((4 * w[k + 3]) + (8 * w[k + 4])))
          + (((16 * w[k + 5]) + (32 * w[k + 6])) + ((64 * w[k + 7]) + (128 * w[k + 8]))))
        + ((((256 * w[k + 9]) + (512 * w[k + 10])) + ((1024 * w[k + 11]) + (2048 * w[k + 12])))
          + (((4096 * w[k + 13]) + (8192 * w[k + 14])) + ((16384 * w[k + 15]) + (32768 * w[k + 16]))))

\* the limbs of a word, the lowest first
limbs_of(w) ==
    SubSeq([j \in 1..(Len(w) \div 16) |-> limb_of(w, j - 1)], 1, Len(w) \div 16)

\* the sums of the limbs of two words from the lowest, each with the carry
\* of the one before
limb_sums(la, lb) ==
    LET s0 == la[1] + lb[1]
        s1 == la[2] + lb[2] + (s0 \div 65536)
        s2 == IF Len(la) > 2 THEN la[3] + lb[3] + (s1 \div 65536) ELSE 0
        s3 == IF Len(la) > 2 THEN la[4] + lb[4] + (s2 \div 65536) ELSE 0
    IN  <<s0, s1, s2, s3>>

\* the `width` bits of the limbs, the lowest first
bits_of(limbs, width) ==
    SubSeq([i \in 1..width |->
               (limbs[((i - 1) \div 16) + 1] \div (2 ^ ((i - 1) % 16))) % 2],
           1, width)

\* wrapping_add of two words of the same width, 32 or 64 bits: the limbs are
\* added from the lowest with the carry, and what is carried out of the
\* highest is dropped
wrapping_add(a, b) ==
    IF Len(a) # Len(b) THEN <<>>
    ELSE bits_of(limb_sums(limbs_of(a), limbs_of(b)), Len(a))

\* the words of `state` with the words of `v` added, each to each
add_each(state, v) ==
    SubSeq([k \in 1..Len(state) |-> wrapping_add(state[k], v[k])], 1, Len(state))

\* rotate_right, rotate_left, >>
rotate_right(x, k) == SubSeq(x, k + 1, Len(x)) \o SubSeq(x, 1, k)

rotate_left(x, k) == rotate_right(x, Len(x) - k)

shift_right(x, k) == SubSeq(x, k + 1, Len(x)) \o Fill(k, 0)

\* a ^ b ^ c
xor3(a, b, c) == SubSeq([i \in 1..Len(a) |-> (a[i] + b[i] + c[i]) % 2], 1, Len(a))

\* (e & f) ^ (!e & g), also (b & c) | (!b & d)
choose_bits(e, f, g) ==
    SubSeq([i \in 1..Len(e) |-> IF e[i] = 1 THEN f[i] ELSE g[i]], 1, Len(e))

\* (a & b) ^ (a & c) ^ (b & c)
majority(a, b, c) ==
    SubSeq([i \in 1..Len(a) |-> (a[i] + b[i] + c[i]) \div 2], 1, Len(a))

\* c ^ (b | !d)
md5_i(b, c, d) ==
    SubSeq([i \in 1..Len(b) |-> (c[i] + (IF b[i] = 1 \/ d[i] = 0 THEN 1 ELSE 0)) % 2],
           1, Len(b))

\* the words of a block, `size` bytes each
words_of(block, size, from_bytes(_)) ==
    SubSeq([i \in 1..(Len(block) \div size) |->
               from_bytes(SubSeq(block, (size * (i - 1)) + 1, size * i))],
           1, Len(block) \div size)

\* the bytes of the number n, `count` of them, the most significant first
RECURSIVE be_bytes_of(_, _)
be_bytes_of(n, count) ==
    IF count = 0 THEN <<>> ELSE Append(be_bytes_of(n \div 256, count - 1), n % 256)

\* the message padded to whole blocks: 0x80, zeros, and the length in bits
\* in the last `length_size` bytes
padded(message, block_size, length_size, little_endian) ==
    LET used  == (Len(message) + 1 + length_size) % block_size
        zeros == IF used = 0 THEN 0 ELSE block_size - used
        bits  == be_bytes_of(8 * Len(message), length_size)
    IN  message \o <<128>> \o Fill(zeros, 0)
          \o (IF little_endian THEN Reverse(bits) ELSE bits)

\* md5: the constants floor(2^32 * abs(sin(i + 1)))
MD5_K ==
    <<const_word(<<55146, 42104>>), const_word(<<59591, 46934>>), const_word(<<9248, 28891>>), const_word(<<49597, 52974>>),
      const_word(<<62844, 4015>>), const_word(<<18311, 50730>>), const_word(<<43056, 17939>>), const_word(<<64838, 38145>>),
      const_word(<<27008, 39128>>), const_word(<<35652, 63407>>), const_word(<<65535, 23473>>), const_word(<<35164, 55230>>),
      const_word(<<27536, 4386>>), const_word(<<64920, 29075>>), const_word(<<42617, 17294>>), const_word(<<18868, 2081>>),
      const_word(<<63006, 9570>>), const_word(<<49216, 45888>>), const_word(<<9822, 23121>>), const_word(<<59830, 51114>>),
      const_word(<<54831, 4189>>), const_word(<<580, 5203>>), const_word(<<55457, 59009>>), const_word(<<59347, 64456>>),
      const_word(<<8673, 52710>>), const_word(<<49975, 2006>>), const_word(<<62677, 3463>>), const_word(<<17754, 5357>>),
      const_word(<<43491, 59653>>), const_word(<<64751, 41976>>), const_word(<<26479, 729>>), const_word(<<36138, 19594>>),
      const_word(<<65530, 14658>>), const_word(<<34673, 63105>>), const_word(<<28061, 24866>>), const_word(<<64997, 14348>>),
      const_word(<<42174, 59972>>), const_word(<<19422, 53161>>), const_word(<<63163, 19296>>), const_word(<<48831, 48240>>),
      const_word(<<10395, 32454>>), const_word(<<60065, 10234>>), const_word(<<54511, 12421>>), const_word(<<1160, 7429>>),
      const_word(<<55764, 53305>>), const_word(<<59099, 39397>>), const_word(<<8098, 31992>>), const_word(<<50348, 22117>>),
      const_word(<<62505, 8772>>), const_word(<<17194, 65431>>), const_word(<<43924, 9127>>), const_word(<<64659, 41017>>),
      const_word(<<25947, 22979>>), const_word(<<36620, 52370>>), const_word(<<65519, 62589>>), const_word(<<34180, 24017>>),
      const_word(<<28584, 32335>>), const_word(<<65068, 59104>>), const_word(<<41729, 17172>>), const_word(<<19976, 4513>>),
      const_word(<<63315, 32386>>), const_word(<<48442, 62005>>), const_word(<<10967, 53947>>), const_word(<<60294, 54161>>)>>

\* md5: the rotation of each step
MD5_S ==
    <<7, 12, 17, 22, 7, 12, 17, 22, 7, 12, 17, 22, 7, 12, 17, 22,
      5, 9, 14, 20, 5, 9, 14, 20, 5, 9, 14, 20, 5, 9, 14, 20,
      4, 11, 16, 23, 4, 11, 16, 23, 4, 11, 16, 23, 4, 11, 16, 23,
      6, 10, 15, 21, 6, 10, 15, 21, 6, 10, 15, 21, 6, 10, 15, 21>>

\* md5: the initial state
MD5_INIT ==
    <<const_word(<<26437, 8961>>), const_word(<<61389, 43913>>), const_word(<<39098, 56574>>), const_word(<<4146, 21622>>)>>

\* md5: step i on a block of 16 little-endian words
md5_step(v, M, i) ==
    LET a == v[1]
        b == v[2]
        c == v[3]
        d == v[4]
        f == IF i < 16 THEN choose_bits(b, c, d)
             ELSE IF i < 32 THEN choose_bits(d, b, c)
             ELSE IF i < 48 THEN xor3(b, c, d)
             ELSE md5_i(b, c, d)
        g == IF i < 16 THEN i
             ELSE IF i < 32 THEN ((5 * i) + 1) % 16
             ELSE IF i < 48 THEN ((3 * i) + 5) % 16
             ELSE (7 * i) % 16
        sum == wrapping_add(wrapping_add(f, a), wrapping_add(MD5_K[i + 1], M[g + 1]))
    IN  <<d, wrapping_add(b, rotate_left(sum, MD5_S[i + 1])), b, c>>

\* md5: the steps i .. last - 1 in order, the first half of them before
\* the second, each giving the four words of the state
RECURSIVE md5_steps(_, _, _, _)
md5_steps(v, M, i, last) ==
    IF last - i = 1 THEN md5_step(v, M, i)
    ELSE LET mid  == i + ((last - i) \div 2)
             half == md5_steps(v, M, i, mid)
         IN  IF Len(half) = 4 THEN md5_steps(half, M, mid, last) ELSE v

\* md5: the four rounds of sixteen steps
md5_compress(state, M) == md5_steps(state, M, 0, 64)

\* md5: the blocks of the padded message in order, the state after each
\* being the state before it plus the compressed words
RECURSIVE md5_blocks(_, _)
md5_blocks(state, message) ==
    IF message = <<>> THEN state
    ELSE md5_blocks(
             add_each(state,
                      md5_compress(state,
                                   words_of(SubSeq(message, 1, 64), 4,
                                            word_from_le_bytes))),
             SubSeq(message, 65, Len(message)))

\* the words of the state, each least significant byte first
RECURSIVE md5_output(_, _)
md5_output(state, count) ==
    IF count = 0 THEN <<>>
    ELSE md5_output(state, count - 1) \o word_to_le_bytes(state[count])

\* Md5::new() .. update .. finalize() over the bytes fed
md5_digest(message) ==
    md5_output(md5_blocks(MD5_INIT, padded(message, 64, 8, TRUE)), 4)

\* sha2: the round constants of SHA-256
SHA256_K ==
    <<const_word(<<17034, 12184>>), const_word(<<28983, 17553>>), const_word(<<46528, 64463>>), const_word(<<59829, 56229>>),
      const_word(<<14678, 49755>>), const_word(<<23025, 4593>>), const_word(<<37439, 33444>>), const_word(<<43804, 24277>>),
      const_word(<<55303, 43672>>), const_word(<<4739, 23297>>), const_word(<<9265, 34238>>), const_word(<<21772, 32195>>),
      const_word(<<29374, 23924>>), const_word(<<32990, 45566>>), const_word(<<39900, 1703>>), const_word(<<49563, 61812>>),
      const_word(<<58523, 27073>>), const_word(<<61374, 18310>>), const_word(<<4033, 40390>>), const_word(<<9228, 41420>>),
      const_word(<<11753, 11375>>), const_word(<<19060, 33962>>), const_word(<<23728, 43484>>), const_word(<<30457, 35034>>),
      const_word(<<38974, 20818>>), const_word(<<43057, 50797>>), const_word(<<45059, 10184>>), const_word(<<48985, 32711>>),
      const_word(<<50912, 3059>>), const_word(<<54695, 37191>>), const_word(<<1738, 25425>>), const_word(<<5161, 10599>>),
      const_word(<<10167, 2693>>), const_word(<<11803, 8504>>), const_word(<<19756, 28156>>), const_word(<<21304, 3347>>),
      const_word(<<25866, 29524>>), const_word(<<30314, 2747>>), const_word(<<33218, 51502>>), const_word(<<37490, 11397>>),
      const_word(<<41663, 59553>>), const_word(<<43034, 26187>>), const_word(<<49739, 35696>>), const_word(<<51052, 20899>>),
      const_word(<<53650, 59417>>), const_word(<<54937, 1572>>), const_word(<<62478, 13701>>), const_word(<<4202, 41072>>),
      const_word(<<6564, 49430>>), const_word(<<7735, 27656>>), const_word(<<10056, 30540>>), const_word(<<13488, 48309>>),
      const_word(<<14620, 3251>>), const_word(<<20184, 43594>>), const_word(<<23452, 51791>>), const_word(<<26670, 28659>>),
      const_word(<<29839, 33518>>), const_word(<<30885, 25455>>), const_word(<<33992, 30740>>), const_word(<<36039, 520>>),
      const_word(<<37054, 65530>>), const_word(<<42064, 27883>>), const_word(<<48889, 41975>>), const_word(<<50801, 30962>>)>>

\* sha2: the initial state of SHA-256
SHA256_INIT ==
    <<const_word(<<27145, 58983>>), const_word(<<47975, 44677>>), const_word(<<15470, 62322>>), const_word(<<42319, 62778>>),
      const_word(<<20750, 21119>>), const_word(<<39685, 26764>>), const_word(<<8067, 55723>>), const_word(<<23520, 52505>>)>>

\* sha2: the round constants of SHA-384 and SHA-512
SHA512_K ==
    <<const_word(<<17034, 12184, 55080, 44578>>), const_word(<<28983, 17553, 9199, 26061>>),
      const_word(<<46528, 64463, 60493, 15151>>), const_word(<<59829, 56229, 33161, 56252>>),
      const_word(<<14678, 49755, 62280, 46392>>), const_word(<<23025, 4593, 46597, 53273>>),
      const_word(<<37439, 33444, 44825, 20379>>), const_word(<<43804, 24277, 55917, 33048>>),
      const_word(<<55303, 43672, 41731, 578>>), const_word(<<4739, 23297, 17776, 28606>>),
      const_word(<<9265, 34238, 20196, 45708>>), const_word(<<21772, 32195, 54783, 46306>>),
      const_word(<<29374, 23924, 62075, 35183>>), const_word(<<32990, 45566, 15126, 38577>>),
      const_word(<<39900, 1703, 9671, 4661>>), const_word(<<49563, 61812, 53097, 9876>>),
      const_word(<<58523, 27073, 40689, 19154>>), const_word(<<61374, 18310, 14415, 9699>>),
      const_word(<<4033, 40390, 35724, 54709>>), const_word(<<9228, 41420, 30636, 40037>>),
      const_word(<<11753, 11375, 22827, 629>>), const_word(<<19060, 33962, 28326, 58499>>),
      const_word(<<23728, 43484, 48449, 64468>>), const_word(<<30457, 35034, 33553, 21429>>),
      const_word(<<38974, 20818, 61030, 57259>>), const_word(<<43057, 50797, 11700, 12816>>),
      const_word(<<45059, 10184, 39163, 8511>>), const_word(<<48985, 32711, 48879, 3812>>),
      const_word(<<50912, 3059, 15784, 36802>>), const_word(<<54695, 37191, 37642, 42789>>),
      const_word(<<1738, 25425, 57347, 33391>>), const_word(<<5161, 10599, 2574, 28272>>),
      const_word(<<10167, 2693, 18130, 12284>>), const_word(<<11803, 8504, 23590, 51494>>),
      const_word(<<19756, 28156, 23236, 10989>>), const_word(<<21304, 3347, 40341, 46047>>),
      const_word(<<25866, 29524, 35759, 25566>>), const_word(<<30314, 2747, 15479, 45736>>),
      const_word(<<33218, 51502, 18413, 44774>>), const_word(<<37490, 11397, 5250, 13627>>),
      const_word(<<41663, 59553, 19697, 868>>), const_word(<<43034, 26187, 48194, 12289>>),
      const_word(<<49739, 35696, 53496, 38801>>), const_word(<<51052, 20899, 1620, 48688>>),
      const_word(<<53650, 59417, 55023, 21016>>), const_word(<<54937, 1572, 21861, 43280>>),
      const_word(<<62478, 13701, 22385, 8234>>), const_word(<<4202, 41072, 12987, 53688>>),
      const_word(<<6564, 49430, 47314, 53448>>), const_word(<<7735, 27656, 20801, 43859>>),
      const_word(<<10056, 30540, 57230, 60313>>), const_word(<<13488, 48309, 57755, 18600>>),
      const_word(<<14620, 3251, 50633, 23139>>), const_word(<<20184, 43594, 58177, 35531>>),
      const_word(<<23452, 51791, 30563, 58227>>), const_word(<<26670, 28659, 54962, 47267>>),
      const_word(<<29839, 33518, 24047, 45820>>), const_word(<<30885, 25455, 17175, 12128>>),
      const_word(<<33992, 30740, 41456, 43890>>), const_word(<<36039, 520, 6756, 14828>>),
      const_word(<<37054, 65530, 9059, 7720>>), const_word(<<42064, 27883, 56962, 48617>>),
      const_word(<<48889, 41975, 45766, 30997>>), const_word(<<50801, 30962, 58226, 21291>>),
      const_word(<<51751, 16078, 59942, 24988>>), const_word(<<53638, 47303, 8640, 49671>>),
      const_word(<<60122, 32214, 52704, 60190>>), const_word(<<62845, 20351, 61038, 53624>>),
      const_word(<<1776, 26538, 29207, 28602>>), const_word(<<2659, 32197, 41672, 39078>>),
      const_word(<<4415, 38916, 48889, 3502>>), const_word(<<7025, 2869, 4892, 18203>>),
      const_word(<<10459, 30709, 8964, 32132>>), const_word(<<13002, 43899, 16583, 9363>>),
      const_word(<<15518, 48650, 5577, 48828>>), const_word(<<17181, 26564, 39952, 3404>>),
      const_word(<<19653, 54462, 52030, 17078>>), const_word(<<22911, 10652, 64613, 32298>>),
      const_word(<<24523, 28587, 15062, 64236>>), const_word(<<27716, 6540, 19015, 22551>>)>>

\* sha2: the initial state of SHA-512
SHA512_INIT ==
    <<const_word(<<27145, 58983, 62396, 51464>>), const_word(<<47975, 44677, 33994, 42811>>),
      const_word(<<15470, 62322, 65172, 63531>>), const_word(<<42319, 62778, 24349, 14065>>),
      const_word(<<20750, 21119, 44518, 33489>>), const_word(<<39685, 26764, 11070, 27679>>),
      const_word(<<8067, 55723, 64321, 48491>>), const_word(<<23520, 52505, 4990, 8569>>)>>

\* sha2: the initial state of SHA-384
SHA384_INIT ==
    <<const_word(<<52155, 40285, 49413, 40664>>), const_word(<<25242, 10538, 13948, 54535>>),
      const_word(<<37209, 346, 12400, 56599>>), const_word(<<5423, 60632, 63246, 22841>>),
      const_word(<<26419, 9831, 65472, 2865>>), const_word(<<36532, 19079, 26712, 5393>>),
      const_word(<<56076, 11789, 25849, 36775>>), const_word(<<18357, 18461, 48890, 20388>>)>>

\* sha2: the parameters of the three digests
Sha256 ==
    [word_size |-> 4, K |-> SHA256_K, init |-> SHA256_INIT, output_words |-> 8,
     big0 |-> <<2, 13, 22>>, big1 |-> <<6, 11, 25>>,
     small0 |-> <<7, 18, 3>>, small1 |-> <<17, 19, 10>>]

Sha512 ==
    [word_size |-> 8, K |-> SHA512_K, init |-> SHA512_INIT, output_words |-> 8,
     big0 |-> <<28, 34, 39>>, big1 |-> <<14, 18, 41>>,
     small0 |-> <<1, 8, 7>>, small1 |-> <<19, 61, 6>>]

Sha384 == [Sha512 EXCEPT !.init = SHA384_INIT, !.output_words = 6]

big_sigma(x, r) ==
    xor3(rotate_right(x, r[1]), rotate_right(x, r[2]), rotate_right(x, r[3]))

small_sigma(x, r) ==
    xor3(rotate_right(x, r[1]), rotate_right(x, r[2]), shift_right(x, r[3]))

\* sha2: the message schedule, W[t] from W[t-16], W[t-15], W[t-7], W[t-2]
schedule_word(W, t, P) ==
    wrapping_add(wrapping_add(W[t - 16], small_sigma(W[t - 15], P.small0)),
                 wrapping_add(W[t - 7], small_sigma(W[t - 2], P.small1)))

\* sha2: the schedule grown by `count` words in order, the first half of
\* them before the second
RECURSIVE sha2_schedule(_, _, _)
sha2_schedule(W, P, count) ==
    IF count = 1 THEN Append(W, schedule_word(W, Len(W) + 1, P))
    ELSE LET half == sha2_schedule(W, P, count \div 2)
         IN  IF Len(half) = Len(W) + (count \div 2)
             THEN sha2_schedule(half, P, count - (count \div 2))
             ELSE W

\* sha2: h + S1(e) + ch(e, f, g) + K[t] + W[t]
sha2_T1(v, W, t, P) ==
    wrapping_add(
        wrapping_add(v[8], big_sigma(v[5], P.big1)),
        wrapping_add(choose_bits(v[5], v[6], v[7]), wrapping_add(P.K[t], W[t])))

\* sha2: S0(a) + maj(a, b, c)
sha2_T2(v, P) == wrapping_add(big_sigma(v[1], P.big0), majority(v[1], v[2], v[3]))

\* sha2: the working variables a..h after a round
sha2_shift(v, T1, T2) ==
    <<wrapping_add(T1, T2), v[1], v[2], v[3], wrapping_add(v[4], T1), v[5], v[6], v[7]>>

\* sha2: one round on the working variables a..h
sha2_round(v, W, t, P) == sha2_shift(v, sha2_T1(v, W, t, P), sha2_T2(v, P))

\* sha2: the rounds t .. last - 1 in order, the first half of them before
\* the second, each giving the eight working variables
RECURSIVE sha2_rounds(_, _, _, _, _)
sha2_rounds(v, W, t, last, P) ==
    IF last - t = 1 THEN sha2_round(v, W, t, P)
    ELSE LET mid  == t + ((last - t) \div 2)
             half == sha2_rounds(v, W, t, mid, P)
         IN  IF Len(half) = 8 THEN sha2_rounds(half, W, mid, last, P) ELSE v

\* sha2: the state plus the working variables after the rounds of a block
sha2_compress(state, W, P) ==
    IF Len(W) # Len(P.K) THEN state
    ELSE add_each(state, sha2_rounds(state, W, 1, Len(P.K) + 1, P))

RECURSIVE sha2_blocks(_, _, _)
sha2_blocks(state, message, P) ==
    IF message = <<>> THEN state
    ELSE sha2_blocks(
             sha2_compress(
                 state,
                 sha2_schedule(words_of(SubSeq(message, 1, 16 * P.word_size),
                                        P.word_size, word_from_be_bytes),
                               P, Len(P.K) - 16),
                 P),
             SubSeq(message, (16 * P.word_size) + 1, Len(message)), P)

\* the first `count` words of the state, each most significant byte first
RECURSIVE sha2_output(_, _)
sha2_output(state, count) ==
    IF count = 0 THEN <<>>
    ELSE sha2_output(state, count - 1) \o word_to_be_bytes(state[count])

\* Sha256::new() / Sha384::new() / Sha512::new() .. update .. finalize()
sha2_digest(message, P) ==
    sha2_output(sha2_blocks(P.init,
                            padded(message, 16 * P.word_size, 2 * P.word_size,
                                   FALSE), P),
                P.output_words)

(***************************************************************************)
(* hash.rs: calc_hash!                                                     *)
(***************************************************************************)
Algorithms == {"MD5", "SHA256", "SHA384", "SHA512"}

\* Md5::new(), Sha256::new(), Sha384::new(), Sha512::new(): nothing fed yet
Digest_new(alg) == [alg |-> alg, fed |-> <<>>]

\* hasher.update(data)
Digest_update(hasher, data) == [hasher EXCEPT !.fed = @ \o data]

\* the parameters of the sha2 digest behind a hasher
sha2_of(alg) ==
    IF alg = "SHA256" THEN Sha256 ELSE IF alg = "SHA384" THEN Sha384 ELSE Sha512

\* hasher.finalize()
Digest_finalize(hasher) ==
    IF hasher.alg = "MD5" THEN md5_digest(hasher.fed)
    ELSE sha2_digest(hasher.fed, sha2_of(hasher.alg))

\* the $len each arm hands to INTERNAL
INTERNAL_len(alg) ==
    IF alg = "MD5" THEN 16
    ELSE IF alg = "SHA256" THEN 32
    ELSE IF alg = "SHA384" THEN 48
    ELSE 64

\* &*(result.as_ptr() as *const [u8; $len]): the first $len bytes of the result
as_array(result, len) == SubSeq(result, 1, len)

\* $($hasher.update(&($input_str));)+
RECURSIVE update_each(_, _)
update_each(hasher, input_str) ==
    IF input_str = <<>> THEN hasher
    ELSE update_each(Digest_update(hasher, Head(input_str)), Tail(input_str))

\* (INTERNAL $len; hasher, ...) and (INTERNAL $len; UPPERCASE; hasher, ...)
calc_hash_INTERNAL(len, UPPERCASE, hasher, input_str) ==
    LET result == Digest_finalize(update_each(hasher, input_str))
    IN  const_format(as_array(result, len), FALSE, charset(UPPERCASE))

\* for i in $input_iter { $hasher.update(i); }
RECURSIVE update_for(_, _, _)
update_for(hasher, input_iter, i) ==
    IF i > Len(input_iter) THEN hasher
    ELSE update_for(Digest_update(hasher, input_iter[i]), input_iter, i + 1)

\* (INTERNAL $len; ITER; hasher, iter) and (INTERNAL $len; UPPERCASE; ITER; ...)
calc_hash_INTERNAL_ITER_reversed(len, UPPERCASE, hasher, input_iter) ==
    LET result == Digest_finalize(update_for(hasher, Reverse(input_iter), 1))
    IN  const_format(as_array(result, len), FALSE, charset(UPPERCASE))

calc_hash_INTERNAL_ITER(len, UPPERCASE, hasher, input_iter) ==
    LET result == Digest_finalize(update_for(hasher, input_iter, 1))
    IN  const_format(as_array(result, len), FALSE, charset(UPPERCASE))

\* calc_hash!(ALG: [UPPERCASE] [; ITER] => inputs)
calc_hash(alg, UPPERCASE, ITER, inputs) ==
    IF ITER
    THEN calc_hash_INTERNAL_ITER(INTERNAL_len(alg), UPPERCASE, Digest_new(alg), inputs)
    ELSE calc_hash_INTERNAL(INTERNAL_len(alg), UPPERCASE, Digest_new(alg), inputs)

\* the fragments hashed: "hello" and "world"
Fragments == { <<104, 101, 108, 108, 111>>, <<119, 111, 114, 108, 100>> }

\* $($input_str:expr),+ takes one fragment or more
FragmentLists == SeqsUpTo(Fragments, MaxFragments) \ {<<>>}

\* $input_iter:expr may also yield nothing
FragmentIters == SeqsUpTo(Fragments, MaxFragments)

(***************************************************************************)
(* string/number.rs: NumStr over f32 / f64                                 *)
(***************************************************************************)
\* a float: infinite, not a number, or finite with a sign, a whole part and
\* the decimal digits of its fraction (none for an integral value)
Finite(negative, whole, fraction) ==
    [kind |-> "finite", negative |-> negative, whole |-> whole, fraction |-> fraction]

INFINITY == [kind |-> "inf", negative |-> FALSE, whole |-> 0, fraction |-> <<>>]

NEG_INFINITY == [kind |-> "inf", negative |-> TRUE, whole |-> 0, fraction |-> <<>>]

NAN == [kind |-> "nan", negative |-> FALSE, whole |-> 0, fraction |-> <<>>]

\* f32::trunc / f64::trunc
trunc(value) ==
    IF value.kind = "finite" THEN [value EXCEPT !.fraction = <<>>] ELSE value

\* f32::is_finite / f64::is_finite
is_finite(value) == value.kind = "finite"

\* the decimal digits of a whole number, the most significant first
RECURSIVE decimal_digits(_)
decimal_digits(n) ==
    IF n < 10 THEN <<48 + n>> ELSE Append(decimal_digits(n \div 10), 48 + (n % 10))

\* format!("{}", value) without the feature "feat-string-ext-ryu", and
\* ryu::Buffer::new().format(value) with it: the first writes an integral
\* value without a fraction, the second with ".0"
format_float(value, ryu) ==
    LET sign == IF value.negative THEN <<45>> ELSE <<>>
        fraction == [i \in 1..Len(value.fraction) |-> 48 + value.fraction[i]]
    IN  IF value.kind = "nan" THEN <<78, 97, 78>>
        ELSE IF value.kind = "inf" THEN sign \o <<105, 110, 102>>
        ELSE sign \o decimal_digits(value.whole)
               \o (IF fraction # <<>> THEN <<46>> \o fraction
                   ELSE IF ryu THEN <<46, 48>> ELSE <<>>)

\* str::rfind('.'): the index of the last '.', counted from 0; -1 for None
RECURSIVE rfind_dot(_, _)
rfind_dot(vec, len) ==
    IF len = 0 THEN -1
    ELSE IF vec[len] = 46 THEN len - 1
    ELSE rfind_dot(vec, len - 1)

\* Vec::truncate
truncate(vec, len) == IF len < Len(vec) THEN SubSeq(vec, 1, len) ELSE vec

\* Vec::resize
resize(vec, new_len, value) ==
    IF new_len > Len(vec) THEN vec \o Fill(new_len - Len(vec), value)
    ELSE truncate(vec, new_len)

\* <NumStr<B, U, R, M, f32 / f64> as StringExtT>::push_to_string; U is the
\* integer-only mode.  dot_pos - original_len is a usize: below zero it
\* panics with overflow checks and wraps to a number above every M without
NumStrFloat_push_to_string(vec, value, U, R, M, ryu, overflow_checks) ==
    LET inner        == IF U THEN trunc(value) ELSE value
        original_len == Len(vec)
        written      == vec \o format_float(inner, ryu)
        dot_pos      == rfind_dot(written, Len(written))
        done(buf)    == [buf |-> buf, panicked |-> FALSE]
    IN  IF dot_pos >= 0 /\ is_finite(inner)
        THEN IF U THEN done(truncate(written, dot_pos))
             ELSE IF R > 0 THEN done(resize(written, dot_pos + R + 1, 48))
             ELSE IF dot_pos < original_len
                  THEN IF overflow_checks
                       THEN [buf |-> written, panicked |-> TRUE]
                       ELSE done(written)
             ELSE IF dot_pos - original_len < M
                  THEN done(resize(written, dot_pos + M + 1, 48))
             ELSE done(written)
        ELSE IF dot_pos >= 0 THEN done(written)
        ELSE IF U \/ ~is_finite(inner) THEN done(written)
        ELSE LET dotted == Append(written, 46)
             IN  IF R > 0 THEN done(resize(dotted, original_len + R + 1, 48))
                 ELSE IF M > 0 THEN done(resize(dotted, original_len + M + 1, 48))
                 ELSE done(Append(dotted, 48))

\* the floats drawn: integral values of one to three digits, values with a
\* fraction of one or two digits, negative values, the infinities and NaN
FloatValues ==
    { Finite(negative, whole, fraction) :
        negative \in BOOLEAN, whole \in {1, 12, 123}, fraction \in {<<>>, <<5>>, <<2, 5>>} }
      \cup { Finite(FALSE, 0, <<>>), Finite(FALSE, 0, <<5>>),
             INFINITY, NEG_INFINITY, NAN }

(***************************************************************************)
(* string.rs: NumStr over usize (DecStr, HexStr)                           *)
(***************************************************************************)
\* the loop of NumStr::encode: the digits from the lowest
\*   while num > 0 { num_div.push(charset[num % B]); num /= B; }
RECURSIVE push_digits_low_first(_, _, _, _)
push_digits_low_first(num_div, num, B, cs) ==
    IF num > 0
    THEN push_digits_low_first(Append(num_div, cs[(num % B) + 1]), num \div B, B, cs)
    ELSE num_div

\* NumStr::<B, U, R, M>::encode (string.rs)
LegacyNumStr_encode(value, B, U, R, M) ==
    IF value = 0 THEN <<48>>
    ELSE LET num_div == push_digits_low_first(<<>>, value, B, charset(U))
             sized   == IF R # 0 THEN resize(num_div, R, 48)
                        ELSE IF M # 0 /\ Len(num_div) < M THEN resize(num_div, M, 48)
                        ELSE num_div
         IN  Reverse(sized)

\* <NumStr<B, U, R, M> as StringExtT>::push_to_string (string.rs)
LegacyNumStr_push_to_string(vec, value, B, U, R, M) ==
    vec \o LegacyNumStr_encode(value, B, U, R, M)

\* the usize values drawn
LegacyValues == {0, 1, 9, 10, 171, 255, 4096, 123456}

(***************************************************************************)
(* string_v2.rs, string_v2/general.rs, string_v2/general/tuple.rs: the     *)
(* two destinations of StringT, Vec<u8> and bytes::BytesMut                *)
(***************************************************************************)
\* Base64Str<T, STANDARD, DecodeToAny>
DecodeToAny(inner) == [kind |-> "DecodeToAny", text |-> inner, items |-> <<>>]

\* StringT::encode_to_buf (string_v2) by the type of the value
RECURSIVE encode_to_buf(_, _), encode_each_to_buf(_, _)
encode_to_buf(vec, value) ==
    CASE value.kind = "str" -> vec \o value.text
      [] value.kind \in {"None", "Err"} -> vec
      [] value.kind \in {"Some", "Ok"} -> encode_to_buf(vec, value.items[1])
      [] value.kind = "tuple" -> encode_each_to_buf(vec, value.items)
      [] value.kind = "DecodeToAny" ->
            Base64Str_DecodeToAny_encode_to_buf(vec, value.text, "STANDARD")

encode_each_to_buf(vec, items) ==
    IF items = <<>> THEN vec
    ELSE encode_each_to_buf(encode_to_buf(vec, items[1]), Tail(items))

\* StringT::encode_to_bytes_buf (string_v2) by the type of the value
RECURSIVE encode_to_bytes_buf(_, _), encode_each_to_bytes_buf(_, _)
encode_to_bytes_buf(bytes, value) ==
    CASE value.kind = "str" -> bytes \o value.text
      [] value.kind \in {"None", "Err"} -> bytes
      [] value.kind \in {"Some", "Ok"} -> encode_to_bytes_buf(bytes, value.items[1])
      [] value.kind = "tuple" -> encode_each_to_bytes_buf(bytes, value.items)
      [] value.kind = "DecodeToAny" ->
            Base64Str_DecodeToAny_encode_to_bytes_buf(bytes, value.text, "STANDARD")

encode_each_to_bytes_buf(bytes, items) ==
    IF items = <<>> THEN bytes
    ELSE encode_each_to_bytes_buf(encode_to_bytes_buf(bytes, items[1]), Tail(items))

\* StringT::encode_to_buf_with_separator (string_v2): Option and Result
\* encode the present value without the separator and add the separator;
\* a tuple adds the separator after each element encoded with it and removes
\* one at the end
RECURSIVE encode_to_buf_with_separator(_, _, _)
RECURSIVE encode_each_to_buf_with_separator(_, _, _)
encode_to_buf_with_separator(vec, value, separator) ==
    CASE value.kind = "str" -> (vec \o value.text) \o separator
      [] value.kind \in {"None", "Err"} -> vec
      [] value.kind \in {"Some", "Ok"} ->
            encode_to_buf(vec, value.items[1]) \o separator
      [] value.kind = "tuple" ->
            remove_separator_tailing(
                encode_each_to_buf_with_separator(vec, value.items, separator),
                separator)
      [] value.kind = "DecodeToAny" ->
            Base64Str_DecodeToAny_encode_to_buf(vec, value.text, "STANDARD")
                \o separator

encode_each_to_buf_with_separator(vec, items, separator) ==
    IF items = <<>> THEN vec
    ELSE encode_each_to_buf_with_separator(
             encode_to_buf_with_separator(vec, items[1], separator) \o separator,
             Tail(items), separator)

\* StringT::encode_to_bytes_buf_with_separator (string_v2): Option and
\* Result encode the present value with the separator and add the separator
RECURSIVE encode_to_bytes_buf_with_separator(_, _, _)
RECURSIVE encode_each_to_bytes_buf_with_separator(_, _, _)
encode_to_bytes_buf_with_separator(bytes, value, separator) ==
    CASE value.kind = "str" -> (bytes \o value.text) \o separator
      [] value.kind \in {"None", "Err"} -> bytes
      [] value.kind \in {"Some", "Ok"} ->
            encode_to_bytes_buf_with_separator(bytes, value.items[1], separator)
                \o separator
      [] value.kind = "tuple" ->
            remove_separator_tailing(
                encode_each_to_bytes_buf_with_separator(bytes, value.items, separator),
                separator)
      [] value.kind = "DecodeToAny" ->
            Base64Str_DecodeToAny_encode_to_bytes_buf(bytes, value.text, "STANDARD")
                \o separator

encode_each_to_bytes_buf_with_separator(bytes, items, separator) ==
    IF items = <<>> THEN bytes
    ELSE encode_each_to_bytes_buf_with_separator(
             encode_to_bytes_buf_with_separator(bytes, items[1], separator)
                 \o separator,
             Tail(items), separator)

\* the values encoded into both destinations: texts, Option and Result of a
\* text, a pair, and DecodeToAny of "YQ==" (well-formed), "/" and "YQ=/"
\* (malformed), alone and inside an Option
DestinationValues ==
    LET commands == { DecodeToAny(<<89, 81, 61, 61>>), DecodeToAny(<<47>>),
                      DecodeToAny(<<89, 81, 61, 47>>) }
    IN  {Str(<<97>>), Str(<<98, 99>>), Str(<<>>), None, Err,
         Some(Str(<<97>>)), Ok(Str(<<98, 99>>)), Some(Some(Str(<<97>>))),
         Tuple(<<Str(<<97>>), Str(<<98, 99>>)>>), Tuple(<<Some(Str(<<97>>)), None>>)}
          \cup commands \cup {Some(c) : c \in commands}

(***************************************************************************)
(* base64.rs: b64_encode! into a buffer given by the caller                *)
(***************************************************************************)
\* Engine::encode_string: the text is appended to the String
Engine_encode_string(scheme, input, output_buf) ==
    output_buf \o Engine_encode_slice(scheme, input,
                      encoded_len(Len(input), encode_padding(scheme))).written

\* b64_encode!(scheme: data => STRING: string)
b64_encode_STRING(scheme, data, out) == Engine_encode_string(scheme, data, out)

\* BytesMut::set_len: the buffer is cut to len, or grown to it by bytes that
\* were never written (0 stands for them; none is read before it is written
\* or cut off)
set_len(bytes_buf, len) ==
    IF len <= Len(bytes_buf) THEN SubSeq(bytes_buf, 1, len)
    ELSE bytes_buf \o Fill(len - Len(bytes_buf), 0)

\* b64_encode!(scheme: data => BYTES: bytes_buf): the whole buffer, from its
\* first byte, is the slice handed to Engine::encode_slice
b64_encode_BYTES(scheme, data, out) ==
    LET target_len    == ((Len(data) * 4) \div 3) + 4 + 64
        bytes_buf     == set_len(out, target_len)
        result        == Engine_encode_slice(scheme, data, Len(bytes_buf))
        bytes_written == IF result.ok THEN Len(result.written) ELSE 0
        encoded       == result.written
                           \o SubSeq(bytes_buf, Len(result.written) + 1, Len(bytes_buf))
    IN  truncate(encoded, bytes_written)

(***************************************************************************)
(* State machine.                                                          *)
(***************************************************************************)
\* String::new() / Vec::new(): an empty buffer, no call made yet
Init ==
    /\ string = <<>>
    /\ call = [op |-> "new"]
    /\ RNG = Unseeded

\* String::clear
Clear ==
    /\ call.op # "new"
    /\ string' = <<>>
    /\ RNG' = RNG
    /\ call' = [op |-> "clear"]

\* push_any of a text on an empty buffer: the prior content of later calls
PushPrior ==
    /\ string = <<>>
    /\ \E text \in PriorBufs \ {<<>>} :
        /\ string' = string \o text
        /\ RNG' = RNG
        /\ call' = [op |-> "push_prior", before |-> string]

\* the calls that leave a buffer prepared for one further call: new, clear
\* and the push of the prior content
PreparedOps == {"new", "clear", "push_prior"}

\* push_to_string of an unsigned NumStr
EncodeUnsigned ==
    /\ string \in PriorBufs
    /\ \E w \in Widths : \E v \in UnsignedValues(w) : \E B \in Bases :
       \E U \in BOOLEAN : \E R \in 0..MaxR : \E M \in 0..MaxM :
        /\ string' = NumStrEncodeUnsigned(string, v, B, U, R, M)
        /\ RNG' = RNG
        /\ call' = [op |-> "encode_unsigned", before |-> string, w |-> w,
                    v |-> v, B |-> B, U |-> U, R |-> R, M |-> M]

\* push_to_string of a signed NumStr
EncodeSigned ==
    /\ string \in PriorBufs
    /\ \E w \in Widths : \E v \in SignedValues(w) : \E B \in Bases :
       \E U \in BOOLEAN : \E R \in 0..MaxR : \E M \in 0..MaxM :
        /\ string' = NumStrEncodeSigned(string, v, w, B, U, R, M)
        /\ RNG' = RNG
        /\ call' = [op |-> "encode_signed", before |-> string, w |-> w,
                    v |-> v, B |-> B, U |-> U, R |-> R, M |-> M]

NextNum == Clear \/ PushPrior \/ EncodeUnsigned \/ EncodeSigned

SpecNum == Init /\ [][NextNum]_vars

\* push_any of a fixed-length HexStr
EncodeHexStr ==
    /\ string \in PriorBufs
    /\ \E value \in SeqsUpTo(HexBytes, MaxLen) : \E N \in 0..MaxN :
       \E P \in BOOLEAN : \E U \in BOOLEAN :
        /\ string' = HexStrEncode(string, value, N, P, U)
        /\ RNG' = RNG
        /\ call' = [op |-> "encode_hex_str", before |-> string, value |-> value,
                    N |-> N, P |-> P, U |-> U]

NextHex == Clear \/ PushPrior \/ EncodeHexStr

SpecHex == Init /\ [][NextHex]_vars

\* push_any of urlencoding_str!(E: text)
UrlEncode ==
    /\ string \in PriorBufs
    /\ \E inner \in UrlTexts :
        /\ string' = UrlEncode_encode_to_buf(string, inner)
        /\ RNG' = RNG
        /\ call' = [op |-> "url_encode", before |-> string, inner |-> inner]

\* push_any of urlencoding_str!(D: text)
UrlDecode ==
    /\ string \in PriorBufs
    /\ \E inner \in UrlTexts :
        /\ string' = UrlDecode_encode_to_buf(string, inner)
        /\ RNG' = RNG
        /\ call' = [op |-> "url_decode", before |-> string, inner |-> inner]

\* urlencoding_str!(D: encoded).to_string_ext() where encoded is the text
\* urlencoding_str!(E: x).to_string_ext() returned: the buffer now holds the
\* decoding of the text it held
UrlDecodeEncoded ==
    /\ call.op = "url_encode"
    /\ call.before = <<>>
    /\ string' = UrlDecode_encode_to_buf(<<>>, string)
    /\ RNG' = RNG
    /\ call' = [op |-> "url_decode_encoded", before |-> <<>>, inner |-> string,
                x |-> call.inner]

NextUrl == Clear \/ PushPrior \/ UrlEncode \/ UrlDecode \/ UrlDecodeEncoded

SpecUrl == Init /\ [][NextUrl]_vars

\* the texts pushed in a sequence of appends
PushTexts == { Flatten(chars) : chars \in SeqsUpTo(UrlChars, MaxPushChars) }

\* push_any of a text
PushAnyText ==
    /\ Len(string) <= MaxAppendTo
    /\ \E text \in PushTexts :
        /\ string' = str_encode_to_buf(string, text)
        /\ RNG' = RNG
        /\ call' = [op |-> "push_any_text", before |-> string]

\* push_any of a char
PushAnyChar ==
    /\ Len(string) <= MaxAppendTo
    /\ \E c \in Chars :
        /\ string' = char_encode_to_buf(string, c)
        /\ RNG' = RNG
        /\ call' = [op |-> "push_any_char", before |-> string]

\* push_any of an unsigned integer or NumStr
PushAnyUnsigned ==
    /\ Len(string) <= MaxAppendTo
    /\ \E v \in {0, 10, 255} : \E B \in {10, 16} : \E U \in BOOLEAN :
       \E R \in 0..1 : \E M \in 0..MaxM :
        /\ string' = NumStrEncodeUnsigned(string, v, B, U, R, M)
        /\ RNG' = RNG
        /\ call' = [op |-> "push_any_unsigned", before |-> string]

\* push_any of a signed integer or NumStr
PushAnySigned ==
    /\ Len(string) <= MaxAppendTo
    /\ \E v \in {0 - 128, 0 - 1, 0, 127} : \E B \in {10, 16} : \E U \in BOOLEAN :
        /\ string' = NumStrEncodeSigned(string, v, 8, B, U, 0, 0)
        /\ RNG' = RNG
        /\ call' = [op |-> "push_any_signed", before |-> string]

\* push_any of a fixed-length HexStr
PushAnyHexStr ==
    /\ Len(string) <= MaxAppendTo
    /\ \E value \in SeqsUpTo(HexBytes, 2) : \E N \in 0..1 :
       \E P \in BOOLEAN : \E U \in BOOLEAN :
        /\ string' = HexStrEncode(string, value, N, P, U)
        /\ RNG' = RNG
        /\ call' = [op |-> "push_any_hex_str", before |-> string]

\* push_any of urlencoding_str!(E: text)
PushAnyUrlEncode ==
    /\ Len(string) <= MaxAppendTo
    /\ \E inner \in PushTexts :
        /\ string' = UrlEncode_encode_to_buf(string, inner)
        /\ RNG' = RNG
        /\ call' = [op |-> "push_any_url_encode", before |-> string]

\* push_any of urlencoding_str!(D: text)
PushAnyUrlDecode ==
    /\ Len(string) <= MaxAppendTo
    /\ \E inner \in PushTexts :
        /\ string' = UrlDecode_encode_to_buf(string, inner)
        /\ RNG' = RNG
        /\ call' = [op |-> "push_any_url_decode", before |-> string,
                    inner |-> inner]

NextAppend ==
    \/ Clear
    \/ PushAnyText
    \/ PushAnyChar
    \/ PushAnyUnsigned
    \/ PushAnySigned
    \/ PushAnyHexStr
    \/ PushAnyUrlEncode
    \/ PushAnyUrlDecode

SpecAppend == Init /\ [][NextAppend]_vars

\* push_any_with_separator of an array, a slice or a Vec of texts
PushAnyWithSeparator ==
    /\ string \in PriorBufs
    /\ \E kind \in SequenceKinds : \E items \in SeqsUpTo(SepTexts, MaxItems) :
       \E sep \in Separators :
        /\ string' = push_any_with_separator(string, items, sep)
        /\ RNG' = RNG
        /\ call' = [op |-> "push_any_with_separator", before |-> string,
                    kind |-> kind, items |-> items, sep |-> sep]

\* to_string_ext_with_separator of an array, a slice or a Vec of texts: the
\* buffer is the String it returns
ToStringExtWithSeparator ==
    \E kind \in SequenceKinds : \E items \in SeqsUpTo(SepTexts, MaxItems) :
    \E sep \in Separators :
        /\ string' = to_string_ext_with_separator(items, sep)
        /\ RNG' = RNG
        /\ call' = [op |-> "to_string_ext_with_separator", before |-> <<>>,
                    kind |-> kind, items |-> items, sep |-> sep]

NextSep == Clear \/ PushPrior \/ PushAnyWithSeparator \/ ToStringExtWithSeparator

SpecSep == Init /\ [][NextSep]_vars

\* push_any of a tuple or a sequence holding wrapped values
PushAnyWrapped ==
    /\ call.op \in PreparedOps
    /\ \E context \in {"tuple", "vec"} : \E elements \in JoinedElements(context) :
        /\ string' = PushAnyT_push_any(string, JoinedValue(context, elements))
        /\ RNG' = RNG
        /\ call' = [op |-> "push_any_wrapped", before |-> string,
                    context |-> context, elements |-> elements]

\* push_any_with_separator of a tuple or a sequence holding wrapped values
PushAnyWrappedWithSeparator ==
    /\ call.op \in PreparedOps
    /\ \E context \in {"tuple", "vec"} : \E elements \in JoinedElements(context) :
       \E sep \in Separators :
        /\ string' = PushAnyT_push_any_with_separator(
                         string, JoinedValue(context, elements), sep)
        /\ RNG' = RNG
        /\ call' = [op |-> "push_any_wrapped_with_separator", before |-> string,
                    context |-> context, elements |-> elements, sep |-> sep]

\* str_concat_v2!(sep = ..; ..) / to_string_ext_with_separator of a tuple or
\* a sequence holding wrapped values: the buffer is the String it returns
ToStringExtWrappedWithSeparator ==
    /\ call.op \in PreparedOps
    /\ \E context \in {"tuple", "vec"} : \E elements \in JoinedElements(context) :
       \E sep \in Separators :
        /\ string' = StringExtT_to_string_ext_with_separator(
                         JoinedValue(context, elements), sep)
        /\ RNG' = RNG
        /\ call' = [op |-> "to_string_ext_wrapped_with_separator", before |-> <<>>,
                    context |-> context, elements |-> elements, sep |-> sep]

NextWrap ==
    \/ Clear \/ PushPrior \/ PushAnyWrapped \/ PushAnyWrappedWithSeparator
    \/ ToStringExtWrappedWithSeparator

SpecWrap == Init /\ [][NextWrap]_vars

\* push_any of Base64Str<_, scheme, Encode> onto a String / Vec<u8> or a
\* BytesMut
B64Encode ==
    /\ call.op \in PreparedOps
    /\ \E dest \in {"vec", "bytes"} : \E scheme \in Schemes :
       \E inner \in SeqsUpTo(B64Bytes, MaxData) :
        /\ string' = Base64Str_Encode_encode_to_buf(string, inner, scheme)
        /\ RNG' = RNG
        /\ call' = [op |-> "b64_encode", before |-> string, dest |-> dest,
                    scheme |-> scheme, inner |-> inner]

\* push_any of Base64Str<_, scheme, Decode>
B64Decode ==
    /\ call.op \in PreparedOps
    /\ \E scheme \in Schemes : \E inner \in SeqsUpTo(B64Chars, MaxB64Len) :
        /\ string' = Base64Str_Decode_encode_to_buf(string, inner, scheme)
        /\ RNG' = RNG
        /\ call' = [op |-> "b64_decode", before |-> string,
                    scheme |-> scheme, inner |-> inner]

\* Base64Str<_, scheme, DecodeToAny> encoded into a Vec<u8> or a BytesMut
B64DecodeToAny ==
    /\ call.op \in PreparedOps
    /\ \E dest \in {"vec", "bytes"} : \E scheme \in Schemes :
       \E inner \in SeqsUpTo(B64Chars, MaxB64Len) :
        /\ string' = IF dest = "vec"
                      THEN Base64Str_DecodeToAny_encode_to_buf(string, inner, scheme)
                      ELSE Base64Str_DecodeToAny_encode_to_bytes_buf(string, inner, scheme)
        /\ RNG' = RNG
        /\ call' = [op |-> "b64_decode_to_any", before |-> string, dest |-> dest,
                    scheme |-> scheme, inner |-> inner]

\* b64_decode!(scheme: text) of the text an Encode of the same scheme has
\* just rendered into an empty buffer; the buffer becomes the Vec returned
B64DecodeEncoded ==
    /\ call.op = "b64_encode" /\ call.before = <<>>
    /\ LET decoded == b64_decode(string, call.scheme)
       IN  /\ string' = decoded.data
           /\ RNG' = RNG
           /\ call' = [op |-> "b64_decode_encoded", before |-> <<>>,
                       scheme |-> call.scheme, data |-> call.inner,
                       text |-> string, ok |-> decoded.ok]

NextB64 ==
    \/ Clear \/ PushPrior \/ B64Encode \/ B64Decode \/ B64DecodeToAny
    \/ B64DecodeEncoded

SpecB64 == Init /\ [][NextB64]_vars

\* fast_random(): one draw from the thread-local generator, seeded on its
\* first use
FastRandom ==
    /\ call.op \in PreparedOps \cup {"fast_random"}
    /\ RNG.draws < MaxDraws
    /\ \E hashes \in (IF RNG.seeded THEN {<<>>} ELSE HashRuns) :
        LET n == RNG_get(RNG, hashes)
            drawn == fast_random(n)
        IN  /\ RNG' = [seeded |-> TRUE, n |-> drawn.state, draws |-> RNG.draws + 1]
            /\ string' = string
            /\ call' = [op |-> "fast_random", before |-> string, n |-> n,
                        returned |-> drawn.returned]

\* push_any of RandHexStr<L, RP, LP>
RandHexStrEncode ==
    /\ call.op \in PreparedOps
    /\ \E L \in 0..16 : \E RP \in 0..MaxRP : \E LP \in 0..16 :
       \E hashes \in (IF RNG.seeded THEN {<<>>} ELSE HashRuns) :
        /\ RNG.draws + RP + (IF LP > 0 THEN 1 ELSE 0) <= MaxDraws
        /\ LET encoded == RandHexStr_encode_to_buf(string, RNG, hashes, L, RP, LP)
           IN  /\ string' = encoded.string
               /\ RNG' = encoded.rng
        /\ call' = [op |-> "rand_hex_str", before |-> string, L |-> L, RP |-> RP,
                    LP |-> LP, draws_before |-> RNG.draws]

NextRand == Clear \/ PushPrior \/ FastRandom \/ RandHexStrEncode

SpecRand == Init /\ [][NextRand]_vars

\* random_choice!(range, choice_set): the String it gives
RandomChoice ==
    /\ call.op \in PreparedOps
    /\ \E range \in 0..MaxRange : \E choice_set \in ChoiceSets :
       \E draws \in Draws(range, Len(choice_set)) :
        /\ string' = random_choice(range, choice_set, draws)
        /\ RNG' = RNG
        /\ call' = [op |-> "random_choice", before |-> <<>>, range |-> range,
                    choice_set |-> choice_set, draws |-> draws]

\* random_choice!(c1, .., cg; split; choice_set): the String it gives
RandomChoiceSplit ==
    /\ call.op \in PreparedOps
    /\ \E ranges \in RangeLists : \E split \in Splits : \E choice_set \in ChoiceSets :
       \E draws \in Draws(SumOf(ranges), Len(choice_set)) :
        /\ string' = random_choice_split(ranges, split, choice_set, draws)
        /\ RNG' = RNG
        /\ call' = [op |-> "random_choice_split", before |-> <<>>,
                    ranges |-> ranges, split |-> split,
                    choice_set |-> choice_set, draws |-> draws]

NextChoice == Clear \/ PushPrior \/ RandomChoice \/ RandomChoiceSplit

SpecChoice == Init /\ [][NextChoice]_vars

\* StringExt::push of a SliceSep
PushSliceSep ==
    /\ call.op \in PreparedOps
    /\ \E inner \in SliceInners : \E separator \in SliceSeparators \cup {UnitSep} :
       \E overflow_checks \in BOOLEAN :
        LET out == StringExt_push([buf |-> string, panicked |-> FALSE,
                                   overflow_checks |-> overflow_checks],
                                  SliceSep(inner, separator))
        IN  /\ string' = out.buf
            /\ RNG' = RNG
            /\ call' = [op |-> "push_slice_sep", before |-> string,
                        inner |-> inner, separator |-> separator,
                        overflow_checks |-> overflow_checks,
                        panicked |-> out.panicked]

\* str_concat!(sep = outer; "T", slice_sep!(inner, separator), "2")
StrConcatSliceSep ==
    /\ call.op \in PreparedOps
    /\ \E inner \in SliceInners : \E separator \in SliceSeparators :
       \E outer \in {CharSep(<<59>>), StrSep(<<44, 32>>)} :
       \E overflow_checks \in BOOLEAN :
        LET out == str_concat_sep([buf |-> <<>>, panicked |-> FALSE,
                                   overflow_checks |-> overflow_checks],
                                  outer,
                                  <<Str(<<84>>), SliceSep(inner, separator),
                                    Str(<<50>>)>>)
        IN  /\ string' = out.buf
            /\ RNG' = RNG
            /\ call' = [op |-> "str_concat_slice_sep", before |-> <<>>,
                        inner |-> inner, separator |-> separator,
                        outer |-> outer, overflow_checks |-> overflow_checks,
                        panicked |-> out.panicked]

NextSlice == Clear \/ PushPrior \/ PushSliceSep \/ StrConcatSliceSep

SpecSlice == Init /\ [][NextSlice]_vars

\* calc_hash!(ALG: [UPPERCASE] [; ITER] => fragments); the macro has no
\* buffer of its own and leaves every other one alone
CalcHash ==
    /\ call.op \in PreparedOps
    /\ \E alg \in Algorithms : \E UPPERCASE \in BOOLEAN : \E ITER \in BOOLEAN :
       \E inputs \in (IF ITER THEN FragmentIters ELSE FragmentLists) :
        /\ string' = string
        /\ RNG' = RNG
        /\ call' = [op |-> "calc_hash", before |-> string, alg |-> alg,
                    UPPERCASE |-> UPPERCASE, ITER |-> ITER, inputs |-> inputs,
                    returned |-> calc_hash(alg, UPPERCASE, ITER, inputs)]

NextHash == CalcHash

SpecHash == Init /\ [][NextHash]_vars

\* push_to_string of a NumStr over a float
EncodeFloat ==
    /\ call.op \in PreparedOps
    /\ \E value \in FloatValues : \E U \in BOOLEAN : \E R \in 0..MaxR :
       \E M \in 0..MaxM : \E ryu \in BOOLEAN : \E overflow_checks \in BOOLEAN :
        LET out == NumStrFloat_push_to_string(string, value, U, R, M, ryu,
                                              overflow_checks)
        IN  /\ string' = out.buf
            /\ RNG' = RNG
            /\ call' = [op |-> "encode_float", before |-> string, value |-> value,
                        U |-> U, R |-> R, M |-> M, ryu |-> ryu,
                        overflow_checks |-> overflow_checks,
                        panicked |-> out.panicked]

NextFloat == Clear \/ PushPrior \/ EncodeFloat

SpecFloat == Init /\ [][NextFloat]_vars

\* encode_to_buf_with_separator of an array, a slice or a Vec of texts
EncodeSequenceWithSeparator ==
    /\ call.op \in PreparedOps
    /\ \E kind \in SequenceKinds : \E items \in SeqsUpTo(SepTexts, MaxItems) :
       \E sep \in Separators :
        /\ string' = array_encode_to_buf_with_separator(string, items, sep)
        /\ RNG' = RNG
        /\ call' = [op |-> "encode_to_buf_with_separator", before |-> string,
                    kind |-> kind, items |-> items, sep |-> sep,
                    panicked |-> FALSE]

\* push_to_string_with_separator (string.rs) of an array, a slice or a Vec
\* of texts
PushSequenceWithSeparator ==
    /\ call.op \in PreparedOps
    /\ \E kind \in SequenceKinds : \E items \in SeqsUpTo(SliceTexts, MaxSlice) :
       \E separator \in SliceSeparators : \E overflow_checks \in BOOLEAN :
        LET out == StringExtT_push_to_string_with_separator(
                       [buf |-> string, panicked |-> FALSE,
                        overflow_checks |-> overflow_checks],
                       Vec([i \in 1..Len(items) |-> Str(items[i])]), separator)
        IN  /\ string' = out.buf
            /\ RNG' = RNG
            /\ call' = [op |-> "push_to_string_with_separator", before |-> string,
                        kind |-> kind, items |-> items, sep |-> separator.text,
                        separator |-> separator,
                        overflow_checks |-> overflow_checks,
                        panicked |-> out.panicked]

NextSeq ==
    Clear \/ PushPrior \/ EncodeSequenceWithSeparator \/ PushSequenceWithSeparator

SpecSeq == Init /\ [][NextSeq]_vars

\* push_to_string of a DecStr or a HexStr of string.rs
LegacyEncode ==
    /\ call.op \in PreparedOps
    /\ \E value \in LegacyValues : \E B \in {10, 16} : \E U \in BOOLEAN :
       \E R \in 0..MaxR : \E M \in 0..MaxM :
        /\ string' = LegacyNumStr_push_to_string(string, value, B, U, R, M)
        /\ RNG' = RNG
        /\ call' = [op |-> "legacy_encode", before |-> string, value |-> value,
                    B |-> B, U |-> U, R |-> R, M |-> M]

NextLegacyNum == Clear \/ PushPrior \/ LegacyEncode

SpecLegacyNum == Init /\ [][NextLegacyNum]_vars

\* the values pushed alone: the payloads and an empty sequence
PushedValues == Payloads \cup {Vec(<<>>)}

\* <String as PushAnyT>::push_any_with_separator of a value of any type
PushAnyValueWithSeparator ==
    /\ call.op \in PreparedOps
    /\ \E value \in PushedValues : \E sep \in Separators :
        /\ string' = PushAnyT_push_any_with_separator(string, value, sep)
        /\ RNG' = RNG
        /\ call' = [op |-> "push_any_value_with_separator", before |-> string,
                    value |-> value, sep |-> sep]

\* encode_to_buf / encode_to_bytes_buf and their with-separator forms
\* (string_v2) of a value, into a Vec<u8> or into a BytesMut holding the
\* same content
EncodeToDestination ==
    /\ call.op \in PreparedOps
    /\ \E value \in DestinationValues : \E dest \in {"vec", "bytes"} :
       \E with_separator \in BOOLEAN : \E sep \in Separators :
        /\ with_separator \/ sep = <<>>
        /\ string' =
              IF dest = "vec"
              THEN IF with_separator
                   THEN encode_to_buf_with_separator(string, value, sep)
                   ELSE encode_to_buf(string, value)
              ELSE IF with_separator
                   THEN encode_to_bytes_buf_with_separator(string, value, sep)
                   ELSE encode_to_bytes_buf(string, value)
        /\ RNG' = RNG
        /\ call' = [op |-> "encode_to_destination", before |-> string,
                    value |-> value, dest |-> dest,
                    with_separator |-> with_separator, sep |-> sep]

NextPush == Clear \/ PushPrior \/ PushAnyValueWithSeparator \/ EncodeToDestination

SpecPush == Init /\ [][NextPush]_vars

\* the separators removed: the chars ',' (1 byte), U+00E9 (2), U+20AC (3)
\* and U+1F600 (4), and the texts ", " and ""
TailSeparators ==
    { CharSep(<<44>>), CharSep(<<195, 169>>), CharSep(<<226, 130, 172>>),
      CharSep(<<240, 159, 152, 128>>), StrSep(<<44, 32>>), StrSep(<<>>) }

\* StringExt::push of a char or a &str: "a" or the text of a separator
PushTail ==
    /\ call.op \in PreparedOps
    /\ \E text \in {<<97>>} \cup {separator.text : separator \in TailSeparators} :
        /\ string' = StringExt_push([buf |-> string, panicked |-> FALSE,
                                     overflow_checks |-> FALSE], Str(text)).buf
        /\ RNG' = RNG
        /\ call' = [op |-> "push", before |-> string, text |-> text]

\* StringExt::into_string_remove_tail: the buffer becomes the String returned
IntoStringRemoveTail ==
    /\ call.op \in PreparedOps \cup {"push"}
    /\ \E separator \in TailSeparators : \E overflow_checks \in BOOLEAN :
        LET out == SeparatorT_remove_end(separator,
                       [buf |-> string, panicked |-> FALSE,
                        overflow_checks |-> overflow_checks])
        IN  /\ string' = out.buf
            /\ RNG' = RNG
            /\ call' = [op |-> "into_string_remove_tail", before |-> string,
                        separator |-> separator,
                        overflow_checks |-> overflow_checks,
                        panicked |-> out.panicked]

NextTail == Clear \/ PushPrior \/ PushTail \/ IntoStringRemoveTail

SpecTail == Init /\ [][NextTail]_vars

\* b64_encode!(scheme: data => STRING: out) and (=> BYTES: out)
B64EncodeInto ==
    /\ call.op \in PreparedOps
    /\ \E form \in {"STRING", "BYTES"} : \E scheme \in Schemes :
       \E data \in SeqsUpTo(B64Bytes, MaxInto) :
        /\ string' = IF form = "STRING"
                      THEN b64_encode_STRING(scheme, data, string)
                      ELSE b64_encode_BYTES(scheme, data, string)
        /\ RNG' = RNG
        /\ call' = [op |-> "b64_encode_into", before |-> string, form |-> form,
                    scheme |-> scheme, data |-> data]

NextInto == Clear \/ PushPrior \/ B64EncodeInto

SpecInto == Init /\ [][NextInto]_vars

(***************************************************************************)
(* Reference notions the properties are stated with.                       *)
(***************************************************************************)
\* the bytes appended by the last call
Appended == SubSeq(string, Len(call.before) + 1, Len(string))

\* the last call left the prior content in place
PriorKept ==
    /\ Len(string) >= Len(call.before)
    /\ SubSeq(string, 1, Len(call.before)) = call.before

\* the character of a digit value: '0'..'9', then 'a'.. or 'A'..
DigitChar(d, U) == IF d < 10 THEN 48 + d ELSE (IF U THEN 55 ELSE 87) + d

\* the natural base-B numeral of n, most significant digit first
RECURSIVE Numeral(_, _, _)
Numeral(n, B, U) ==
    IF n < B THEN <<DigitChar(n, U)>>
    ELSE Append(Numeral(n \div B, B, U), DigitChar(n % B, U))

\* the value of a decimal text (the text holds only '0'..'9')
RECURSIVE ParseDecimal(_)
ParseDecimal(text) ==
    IF text = <<>> THEN 0
    ELSE 10 * ParseDecimal(SubSeq(text, 1, Len(text) - 1)) + (text[Len(text)] - 48)

IsDecimalText(text) ==
    /\ Len(text) > 0
    /\ \A i \in 1..Len(text) : text[i] \in 48..57

\* what the host renders for the maximum value of an unsigned width
\* (u8::MAX.to_string() = "255", u16::MAX.to_string() = "65535")
HostMaxText(w) == IF w = 8 THEN <<50, 53, 53>> ELSE <<54, 53, 53, 51, 53>>

\* what the host renders for the minimum value of a signed width
\* (i8::MIN.to_string() = "-128", i16::MIN.to_string() = "-32768")
HostMinText(w) ==
    IF w = 8 THEN <<45, 49, 50, 56>> ELSE <<45, 51, 50, 55, 54, 56>>

\* a numeral resized to R characters: the most significant digits dropped,
\* or zeros put in front
ResizedNumeral(nat, R) ==
    IF Len(nat) >= R THEN SubSeq(nat, Len(nat) - R + 1, Len(nat))
    ELSE Fill(R - Len(nat), 48) \o nat

\* a numeral filled with leading zeros up to M characters, never cut
PaddedNumeral(nat, M) ==
    IF Len(nat) < M THEN Fill(M - Len(nat), 48) \o nat ELSE nat

(***************************************************************************)
(* Properties of the number encoder.                                       *)
(***************************************************************************)
\* C1: an unsigned value rendered with the default configuration (base 10,
\* R = 0, M = 0) is its canonical decimal text: only decimal digits, parsing
\* it gives the value back, zero is exactly "0", there is no leading zero,
\* and the maximum of the width reads as the host renders it.
C1_DecimalRoundTrip ==
    (call.op = "encode_unsigned" /\ call.B = 10 /\ call.R = 0 /\ call.M = 0)
        => /\ PriorKept
           /\ IsDecimalText(Appended)
           /\ ParseDecimal(Appended) = call.v
           /\ (call.v = 0 => Appended = <<48>>)
           /\ (Len(Appended) > 1 => Appended[1] # 48)
           /\ (call.v = 2^call.w - 1 => Appended = HostMaxText(call.w))

\* the maximum u16 rendered by default after a text already in the buffer
C1_Witness ==
    /\ call.op = "encode_unsigned" /\ call.B = 10 /\ call.R = 0 /\ call.M = 0
    /\ call.w = 16 /\ call.v = 65535
    /\ call.before # <<>>
    /\ Appended = <<54, 53, 53, 51, 53>>

\* C2: with a resize length R > 0 an unsigned value is rendered as exactly R
\* characters, the R least significant base-B digits most significant
\* first, zero-filled on the left when the value has fewer digits; the
\* minimum length M plays no part, and zero gives R zeros.
C2_ResizeExact ==
    (call.op = "encode_unsigned" /\ call.R > 0)
        => /\ PriorKept
           /\ Len(Appended) = call.R
           /\ Appended = ResizedNumeral(Numeral(call.v, call.B, call.U), call.R)
           /\ (call.v = 0 => Appended = Fill(call.R, 48))

\* 0x81 in base 16 resized to one digit with a minimum length set: "1"
C2_Witness ==
    /\ call.op = "encode_unsigned" /\ call.R = 1 /\ call.M = 2
    /\ call.B = 16 /\ call.v = 129
    /\ Appended = <<49>>

\* a value shorter than the resize length was zero-filled
C2_WitnessPadded ==
    /\ call.op = "encode_unsigned" /\ call.R = 2 /\ call.B = 16 /\ call.v = 10
    /\ call.U /\ Appended = <<48, 65>>

\* C3: with R = 0 and a minimum length M > 0 every unsigned value, zero
\* included, is rendered as its natural numeral filled with leading zeros
\* up to M characters, and never cut.
C3_MinimumLength ==
    (call.op = "encode_unsigned" /\ call.R = 0 /\ call.M > 0)
        => Appended = PaddedNumeral(Numeral(call.v, call.B, call.U), call.M)

Min(a, b) == IF a <= b THEN a ELSE b

\* the N-byte window of a payload: its trailing min(len, N) bytes in the
\* trailing slots, zero bytes in front
TrailingWindow(value, N) ==
    LET keep == Min(Len(value), N)
    IN  [i \in 1..N |-> IF i > N - keep THEN value[Len(value) - (N - i)] ELSE 0]

UnreservedBytes == (48..57) \cup (65..90) \cup (97..122) \cup {45, 46, 95, 126}

\* the percent-encoding of a byte sequence, byte by byte
RECURSIVE PercentEncoded(_)
PercentEncoded(bytes) ==
    IF bytes = <<>> THEN <<>>
    ELSE (IF bytes[1] \in UnreservedBytes THEN <<bytes[1]>>
          ELSE <<37, DigitChar(bytes[1] \div 16, TRUE),
                     DigitChar(bytes[1] % 16, TRUE)>>)
             \o PercentEncoded(Tail(bytes))

HexDigitBytes == (48..57) \cup (65..70) \cup (97..102)

HexDigitValue(byte) ==
    IF byte <= 57 THEN byte - 48 ELSE IF byte <= 70 THEN byte - 55 ELSE byte - 87

\* the percent-decoding of a text read left to right: a '%' followed by two
\* hex digits is one byte, every other byte stands for itself
RECURSIVE PercentDecoded(_)
PercentDecoded(text) ==
    IF text = <<>> THEN <<>>
    ELSE IF /\ text[1] = 37
            /\ Len(text) >= 3
            /\ text[2] \in HexDigitBytes
            /\ text[3] \in HexDigitBytes
         THEN <<16 * HexDigitValue(text[2]) + HexDigitValue(text[3])>>
                  \o PercentDecoded(SubSeq(text, 4, Len(text)))
         ELSE <<text[1]>> \o PercentDecoded(Tail(text))

\* C6: Encode appends every unreserved byte of the payload unchanged and
\* every other byte as '%' and its two uppercase hex digits, so the output
\* holds only unreserved bytes and '%'.
C6_PercentEncode ==
    call.op = "url_encode"
        => /\ PriorKept
           /\ Appended = PercentEncoded(call.inner)
           /\ \A i \in 1..Len(Appended) :
                Appended[i] \in UnreservedBytes \cup {37}

\* "~ " and U+00E9 encoded: "~%20%C3%A9"
C6_Witness ==
    /\ call.op = "url_encode" /\ call.inner = <<126, 32, 195, 169>>
    /\ Appended = <<126, 37, 50, 48, 37, 67, 51, 37, 65, 57>>

\* C7: decoding the encoding of a text gives the bytes of the text back,
\* also when the text holds '%' or reads like an escape.
C7_PercentRoundTrip ==
    call.op = "url_decode_encoded" => string = call.x

\* the text "%4f" went through "%254f" and came back
C7_Witness ==
    /\ call.op = "url_decode_encoded" /\ call.x = <<37, 52, 102>>
    /\ call.inner = <<37, 50, 53, 52, 102>>
    /\ string = <<37, 52, 102>>

\* C8: Decode replaces a '%' followed by two hex digits of any case by the
\* byte they denote and appends every other '%' verbatim with the text
\* after it; a text without '%' is appended unchanged.
C8_PercentDecode ==
    call.op = "url_decode"
        => /\ PriorKept
           /\ Appended = PercentDecoded(call.inner)
           /\ ((\A i \in 1..Len(call.inner) : call.inner[i] # 37)
                  => Appended = call.inner)

\* "%4f%": the escape with a lowercase digit is decoded, the '%' at the end
\* of the input is kept
C8_Witness ==
    /\ call.op = "url_decode" /\ call.inner = <<37, 52, 102, 37>>
    /\ Appended = <<79, 37>>

(***************************************************************************)
(* The UTF-8 invariant of the buffer.                                      *)
(***************************************************************************)
Continuation(byte) == byte \in 128..191

\* the byte sequence is well-formed UTF-8 (what str::from_utf8 accepts)
RECURSIVE IsUtf8(_)
IsUtf8(bytes) ==
    IF bytes = <<>> THEN TRUE
    ELSE LET b == bytes[1]
             n == Len(bytes)
         IN  IF b < 128 THEN IsUtf8(Tail(bytes))
             ELSE IF b \in 194..223
             THEN /\ n >= 2 /\ Continuation(bytes[2])
                  /\ IsUtf8(SubSeq(bytes, 3, n))
             ELSE IF b \in 224..239
             THEN /\ n >= 3
                  /\ bytes[2] \in (IF b = 224 THEN 160..191
                                   ELSE IF b = 237 THEN 128..159 ELSE 128..191)
                  /\ Continuation(bytes[3])
                  /\ IsUtf8(SubSeq(bytes, 4, n))
             ELSE IF b \in 240..244
             THEN /\ n >= 4
                  /\ bytes[2] \in (IF b = 240 THEN 144..191
                                   ELSE IF b = 244 THEN 128..143 ELSE 128..191)
                  /\ Continuation(bytes[3])
                  /\ Continuation(bytes[4])
                  /\ IsUtf8(SubSeq(bytes, 5, n))
             ELSE FALSE

\* C9: after any sequence of appends through the safe surface the buffer
\* holds valid UTF-8.
C9_Utf8Invariant == IsUtf8(string)

(***************************************************************************)
(* Properties of separator joining.                                        *)
(***************************************************************************)
\* the values in order with the separator between each adjacent pair
RECURSIVE Joined(_, _)
Joined(items, sep) ==
    IF items = <<>> THEN <<>>
    ELSE IF Len(items) = 1 THEN items[1]
    ELSE (items[1] \o sep) \o Joined(Tail(items), sep)

RECURSIVE TotalLen(_)
TotalLen(items) ==
    IF items = <<>> THEN 0 ELSE Len(items[1]) + TotalLen(Tail(items))

\* C10: a sequence of k texts rendered with a separator onto an empty
\* buffer is the texts in order with the separator between each adjacent
\* pair only: max(k - 1, 0) separators, none in front, none at the end,
\* and nothing at all for k = 0.
C10_JoinExact ==
    (/\ call.op \in {"push_any_with_separator", "to_string_ext_with_separator"}
     /\ call.before = <<>>)
        => LET k == Len(call.items)
           IN  /\ string = Joined(call.items, call.sep)
               /\ Len(string) = TotalLen(call.items)
                                  + (IF k > 0 THEN k - 1 ELSE 0) * Len(call.sep)
               /\ (k = 0 => string = <<>>)

\* ["a", "bc", "a"] joined with ", " by to_string_ext_with_separator
C10_Witness ==
    /\ call.op = "to_string_ext_with_separator"
    /\ call.items = << <<97>>, <<98, 99>>, <<97>> >> /\ call.sep = <<44, 32>>
    /\ string = <<97, 44, 32, 98, 99, 44, 32, 97>>

\* the empty sequence pushed with a separator onto an empty buffer
C10_WitnessEmpty ==
    /\ call.op = "push_any_with_separator" /\ call.before = <<>>
    /\ call.items = <<>> /\ call.sep = <<44>>
    /\ string = <<>>

(***************************************************************************)
(* Properties of with_prefix / with_suffix and of absent values.           *)
(***************************************************************************)
\* the text a single value stands for
RECURSIVE TextOf(_)
TextOf(value) ==
    IF value.kind = "str" THEN value.text
    ELSE IF value.kind \in {"Some", "Ok"} THEN TextOf(value.items[1])
    ELSE <<>>

Absent(value) == value.kind \in {"None", "Err"}

Composite(value) == value.kind \in {"tuple", "Vec"}

\* a text with the prefixes put in front and the suffixes put behind, in
\* the order the calls were made
RECURSIVE WrappedText(_, _)
WrappedText(text, wraps) ==
    IF wraps = <<>> THEN text
    ELSE WrappedText(IF wraps[1].op = "with_prefix"
                     THEN TextOf(wraps[1].affix) \o text
                     ELSE text \o TextOf(wraps[1].affix),
                     Tail(wraps))

\* the elements one written element contributes to a join: none when it is
\* absent, one when it is a single value, and for a tuple or a sequence
\* each of its items with the wrapping of its own
ElementTexts(element) ==
    IF Absent(element.payload) THEN <<>>
    ELSE IF Composite(element.payload)
    THEN [i \in 1..Len(element.payload.items) |->
             WrappedText(TextOf(element.payload.items[i]), element.wraps)]
    ELSE <<WrappedText(TextOf(element.payload), element.wraps)>>

\* the elements a written element contributes when every payload, a tuple
\* or a sequence too, is taken as one element behind its prefix
ElementTextsAsOne(element, sep) ==
    IF Absent(element.payload) THEN <<>>
    ELSE IF Composite(element.payload) /\ element.wraps # <<>>
    THEN <<WrappedText(
             Joined([i \in 1..Len(element.payload.items) |->
                        TextOf(element.payload.items[i])], sep),
             element.wraps)>>
    ELSE ElementTexts(element)

\* the elements of the whole join
AllElementTexts(elements) ==
    Flatten([i \in 1..Len(elements) |-> ElementTexts(elements[i])])

AllElementTextsAsOne(elements, sep) ==
    Flatten([i \in 1..Len(elements) |-> ElementTextsAsOne(elements[i], sep)])

JoinedCall ==
    call.op \in {"push_any_wrapped_with_separator",
                 "to_string_ext_wrapped_with_separator"}

\* some element of the call is a present payload behind a prefix or a suffix
SomeWrappedPresent ==
    \E i \in 1..Len(call.elements) :
        /\ call.elements[i].wraps # <<>>
        /\ ~Absent(call.elements[i].payload)

\* C11 (as amended): in a separator-joined tuple or sequence an element
\* x.with_prefix(p) / x.with_suffix(q), nested too, whose payload x is not
\* itself a tuple or a sequence stands as the single element p x / x q with
\* no separator inside it and the separator exactly once between it and each
\* neighbour; a tuple or sequence payload gets the prefix / suffix on each
\* of its items, which stay separate elements.
C11_WrappedIsOneElement ==
    (JoinedCall /\ SomeWrappedPresent)
        => string = call.before \o Joined(AllElementTexts(call.elements), call.sep)

\* C11 (as stated): every payload, a tuple or a sequence too, follows its
\* prefix as one single element.
C11_AsStated ==
    (JoinedCall /\ SomeWrappedPresent)
        => string = call.before
                      \o Joined(AllElementTextsAsOne(call.elements, call.sep), call.sep)

\* ("a", "bc".with_prefix("p").with_suffix(Some("q")), "a") joined with ","
C11_Witness ==
    /\ call.op = "to_string_ext_wrapped_with_separator" /\ call.context = "tuple"
    /\ call.elements =
         << [payload |-> Str(<<97>>), wraps |-> <<>>],
            [payload |-> Str(<<98, 99>>),
             wraps |-> << [op |-> "with_prefix", affix |-> Str(<<112>>)],
                          [op |-> "with_suffix", affix |-> Some(Str(<<113>>))] >>],
            [payload |-> Str(<<97>>), wraps |-> <<>>] >>
    /\ call.sep = <<44>>
    /\ string = <<97, 44, 112, 98, 99, 113, 44, 97>>

\* vec!["a", "bc"] with the prefix "p" on each, pushed with ", " behind "x."
C11_WitnessSequence ==
    /\ call.op = "push_any_wrapped_with_separator" /\ call.context = "vec"
    /\ call.before = <<120, 46>> /\ call.sep = <<44, 32>>
    /\ Len(call.elements) = 2
    /\ call.elements[1].payload = Str(<<97>>)
    /\ call.elements[2].payload = Str(<<98, 99>>)
    /\ call.elements[1].wraps = << [op |-> "with_prefix", affix |-> Str(<<112>>)] >>
    /\ string = <<120, 46, 112, 97, 44, 32, 112, 98, 99>>

\* some element of the call is absent, and `present` are the others
SomeAbsent ==
    \E i \in 1..Len(call.elements) : Absent(call.elements[i].payload)

RECURSIVE PresentElements(_)
PresentElements(elements) ==
    IF elements = <<>> THEN <<>>
    ELSE IF Absent(elements[1].payload) THEN PresentElements(Tail(elements))
    ELSE <<elements[1]>> \o PresentElements(Tail(elements))

C12_WitnessBetween ==
    /\ call.op = "push_any_wrapped_with_separator" /\ call.before = <<120, 46>>
    /\ Len(call.elements) = 3
    /\ call.elements[1].payload = Str(<<97>>)
    /\ call.elements[2] =
         [payload |-> Err, wraps |-> << [op |-> "with_suffix", affix |-> Str(<<112>>)] >>]
    /\ call.elements[3].payload = Str(<<97>>)
    /\ call.sep = <<44>>
    /\ string = <<120, 46, 97, 44, 97>>

(***************************************************************************)
(* Properties of the Base64 commands.                                      *)
(***************************************************************************)
UrlSafe(scheme) == scheme \in {"URL_SAFE", "URL_SAFE_NO_PAD"}

Padded(scheme) == scheme \in {"STANDARD", "URL_SAFE"}

\* the Base64 symbol of a six-bit value (RFC 4648, tables 1 and 2)
Base64Symbol(v, scheme) ==
    IF v < 26 THEN 65 + v
    ELSE IF v < 52 THEN 97 + (v - 26)
    ELSE IF v < 62 THEN 48 + (v - 52)
    ELSE IF v = 62 THEN (IF UrlSafe(scheme) THEN 45 ELSE 43)
    ELSE (IF UrlSafe(scheme) THEN 95 ELSE 47)

IsBase64Symbol(byte, scheme) == \E v \in 0..63 : Base64Symbol(v, scheme) = byte

SymbolValue(byte, scheme) == CHOOSE v \in 0..63 : Base64Symbol(v, scheme) = byte

\* the bits of a number, most significant first
Bits(num, width) == [i \in 1..width |-> (num \div (2 ^ (width - i))) % 2]

\* the number a sequence of bits stands for
RECURSIVE BitsValue(_)
BitsValue(bits) ==
    IF bits = <<>> THEN 0
    ELSE (2 * BitsValue(SubSeq(bits, 1, Len(bits) - 1))) + bits[Len(bits)]

\* the bits of a sequence of numbers of one width
BitString(nums, width) == Flatten([i \in 1..Len(nums) |-> Bits(nums[i], width)])

\* a bit string cut into groups of one width; bits short of a group are
\* left out
Groups(bits, width) ==
    [i \in 1..(Len(bits) \div width) |->
        BitsValue(SubSeq(bits, ((i - 1) * width) + 1, i * width))]

\* the Base64 text of a byte sequence: its bits, filled up with zero bits
\* to whole symbols, six bits a symbol, and '=' up to whole quads when padded
Base64Text(data, scheme) ==
    LET bits == BitString(data, 8)
        filled == bits \o Fill((6 - (Len(bits) % 6)) % 6, 0)
        sextets == Groups(filled, 6)
        symbols == [i \in 1..Len(sextets) |-> Base64Symbol(sextets[i], scheme)]
    IN  IF Padded(scheme)
        THEN symbols \o Fill((4 - (Len(symbols) % 4)) % 4, 61)
        ELSE symbols

\* a text without its trailing '=' characters
RECURSIVE Unpadded(_)
Unpadded(text) ==
    IF text # <<>> /\ text[Len(text)] = 61
    THEN Unpadded(SubSeq(text, 1, Len(text) - 1))
    ELSE text

\* the bits the symbols of a text carry
SymbolBits(text, scheme) ==
    BitString([i \in 1..Len(Unpadded(text)) |->
                  SymbolValue(Unpadded(text)[i], scheme)], 6)

\* the text is Base64 of the scheme: symbols only, '=' only at the end and
\* exactly up to a whole quad when padded and none when not, no lone symbol,
\* and no bit set beyond the last whole byte
WellFormedBase64(text, scheme) ==
    LET body == Unpadded(text)
        pad == Len(text) - Len(body)
    IN  /\ \A i \in 1..Len(body) : IsBase64Symbol(body[i], scheme)
        /\ IF Padded(scheme)
           THEN Len(text) % 4 = 0 /\ pad <= 2
           ELSE pad = 0 /\ Len(body) % 4 # 1
        /\ LET bits == SymbolBits(text, scheme)
           IN  \A i \in 1..Len(bits) :
                   i > (Len(bits) \div 8) * 8 => bits[i] = 0

\* the bytes a well-formed Base64 text stands for
Base64Decoded(text, scheme) == Groups(SymbolBits(text, scheme), 8)

\* C13: the Decode command appends exactly the decoded bytes when the
\* payload is well-formed Base64 of its scheme and decodes to valid UTF-8,
\* and leaves the buffer exactly as it was otherwise.
C13_DecodeChecked ==
    call.op = "b64_decode"
        => IF WellFormedBase64(call.inner, call.scheme)
              /\ IsUtf8(Base64Decoded(call.inner, call.scheme))
           THEN string = call.before \o Base64Decoded(call.inner, call.scheme)
           ELSE string = call.before

\* "aA==" decoded under STANDARD behind "x.": 'h' is appended
C13_Witness ==
    /\ call.op = "b64_decode" /\ call.scheme = "STANDARD"
    /\ call.before = <<120, 46>> /\ call.inner = <<97, 65, 61, 61>>
    /\ string = <<120, 46, 104>>

\* "/A==" is Base64 of the byte 0xFC, which is not UTF-8: nothing appended
C13_WitnessNotUtf8 ==
    /\ call.op = "b64_decode" /\ call.scheme = "STANDARD"
    /\ call.before = <<120, 46>> /\ call.inner = <<47, 65, 61, 61>>
    /\ WellFormedBase64(call.inner, call.scheme)
    /\ string = <<120, 46>>

\* "aA" without padding is malformed under STANDARD: nothing appended
C13_WitnessMalformed ==
    /\ call.op = "b64_decode" /\ call.scheme = "STANDARD"
    /\ call.before = <<120, 46>> /\ call.inner = <<97, 65>>
    /\ string = <<120, 46>>

\* C14: the DecodeToAny command appends the raw decoded bytes when the
\* payload is well-formed Base64 of its scheme, valid UTF-8 or not, and
\* leaves the length and the contents of the buffer as they were when the
\* payload is malformed.
C14_DecodeToAny ==
    call.op = "b64_decode_to_any"
        => IF WellFormedBase64(call.inner, call.scheme)
           THEN string = call.before \o Base64Decoded(call.inner, call.scheme)
           ELSE string = call.before

\* C15: decoding with a scheme the text an Encode of the same scheme
\* rendered gives the data back exactly, under each of the four schemes; the
\* padded encoding is the unpadded encoding of the same data followed by
\* '=' characters only.
C15_Base64RoundTrip ==
    /\ call.op = "b64_decode_encoded" => (call.ok /\ string = call.data)
    /\ (call.op = "b64_encode" /\ call.before = <<>> /\ Padded(call.scheme))
          => LET no_pad == IF call.scheme = "STANDARD" THEN "STANDARD_NO_PAD"
                           ELSE "URL_SAFE_NO_PAD"
                 unpadded == Base64Str_Encode_encode_to_buf(<<>>, call.inner, no_pad)
             IN  /\ \E k \in 0..2 : string = unpadded \o Fill(k, 61)
                 /\ \A i \in 1..Len(unpadded) : unpadded[i] # 61

\* the bytes 'h' 0xFB 0xFF 0x00 encoded under URL_SAFE as "aPv_AA==" and
\* decoded again
C15_Witness ==
    /\ call.op = "b64_decode_encoded" /\ call.scheme = "URL_SAFE"
    /\ call.data = <<104, 251, 255, 0>>
    /\ call.text = <<97, 80, 118, 95, 65, 65, 61, 61>>
    /\ string = <<104, 251, 255, 0>>

\* C16: the n * 4 / 3 + 4 bytes reserved are at least the encoded length,
\* 4 * ceil(n / 3) padded and ceil(4n / 3) unpadded, so the encoder never
\* fails and the fallback of 0 written bytes is not taken: the buffer grows
\* by exactly the encoded length and its prior bytes are unchanged.
C16_EncodeCapacity ==
    call.op = "b64_encode"
        => LET n == Len(call.inner)
               reserved == ((n * 4) \div 3) + 4
               real == IF Padded(call.scheme) THEN 4 * ((n + 2) \div 3)
                       ELSE ((4 * n) + 2) \div 3
           IN  /\ reserved >= real
               /\ Len(string) = Len(call.before) + real
               /\ PriorKept
               /\ Appended = Base64Text(call.inner, call.scheme)

\* four bytes encoded under STANDARD behind "x.": 9 bytes reserved, 8 written
C16_Witness ==
    /\ call.op = "b64_encode" /\ call.scheme = "STANDARD" /\ call.dest = "bytes"
    /\ call.before = <<120, 46>> /\ Len(call.inner) = 4
    /\ Len(string) = 10

(***************************************************************************)
(* 64-bit words as the properties speak of them: bit i of a word is its    *)
(* element i, the least significant bit first.                             *)
(***************************************************************************)
BitAt(word, i) == IF i \in 1..64 THEN word[i] ELSE 0

NonZeroWord(word) == \E i \in 1..64 : word[i] = 1

\* the word written as sixteen hexadecimal digits, most significant first
HexWord(digits) ==
    [i \in 1..64 |-> (digits[16 - ((i - 1) \div 4)] \div (2 ^ ((i - 1) % 4))) % 2]

\* n ^= n >> 12; n ^= n << 25; n ^= n >> 27
Xorshift(n) ==
    LET a == [i \in 1..64 |-> (n[i] + BitAt(n, i + 12)) % 2]
        b == [i \in 1..64 |-> (a[i] + BitAt(a, i - 25)) % 2]
    IN  [i \in 1..64 |-> (b[i] + BitAt(b, i + 27)) % 2]

\* a * m modulo 2^64, bit by bit: bit k of the product is the parity of the
\* number of pairs of set bits i of a and k + 1 - i of m plus the carry of
\* the bits below; what is carried out of bit 64 is dropped
RECURSIVE ProductBits(_, _, _, _)
ProductBits(a, m, k, carry) ==
    IF k > 64 THEN <<>>
    ELSE LET ones == Cardinality({i \in 1..k : a[i] = 1 /\ m[(k + 1) - i] = 1})
         IN  <<(ones + carry) % 2>> \o ProductBits(a, m, k + 1, (ones + carry) \div 2)

TimesMod64(a, m) == ProductBits(a, m, 1, 0)

\* 0x2545F4914F6CDD1D
StarMultiplier == HexWord(<<2, 5, 4, 5, 15, 4, 9, 1, 4, 15, 6, 12, 13, 13, 1, 13>>)

\* C17: the stored state of the fast generator is never zero once seeded;
\* each draw stores the xorshift of the previous state (the word before the
\* multiplication) and returns that stored state times 0x2545F4914F6CDD1D
\* modulo 2^64, which is never zero.
C17_StateInvariant ==
    /\ RNG.seeded => NonZeroWord(RNG.n)
    /\ call.op = "fast_random" =>
        /\ NonZeroWord(call.n)
        /\ RNG.n = Xorshift(call.n)
        /\ call.returned = TimesMod64(RNG.n, StarMultiplier)
        /\ NonZeroWord(call.returned)

\* the first draw of a generator seeded with 1
C17_Witness ==
    /\ call.op = "fast_random"
    /\ call.n = HexWord(<<0, 0, 0, 0, 0, 0, 0, 0, 0, 0, 0, 0, 0, 0, 0, 1>>)
    /\ RNG.n = HexWord(<<0, 0, 0, 0, 0, 0, 0, 0, 0, 2, 0, 0, 0, 0, 0, 1>>)
    /\ call.returned = HexWord(<<4, 7, 14, 4, 12, 14, 4, 11, 8, 9, 6, 12, 13, 13, 1, 13>>)

\* its second draw
C17_WitnessSecondDraw ==
    /\ call.op = "fast_random"
    /\ RNG.draws = 2
    /\ call.n = HexWord(<<0, 0, 0, 0, 0, 0, 0, 0, 0, 2, 0, 0, 0, 0, 0, 1>>)
    /\ RNG.n = HexWord(<<0, 0, 0, 4, 0, 0, 4, 0, 0, 0, 8, 0, 2, 8, 0, 1>>)
    /\ call.returned = HexWord(<<10, 11, 12, 15, 10, 6, 10, 8, 14, 0, 7, 9, 6, 5, 1, 13>>)

\* a draw of a generator whose first hashes were zero and whose seed has
\* only its top bit set
C17_WitnessTopBit ==
    /\ call.op = "fast_random"
    /\ call.n = HexWord(<<8, 0, 0, 0, 0, 0, 0, 0, 0, 0, 0, 0, 0, 0, 0, 0>>)
    /\ call.returned = HexWord(<<15, 1, 0, 5, 3, 14, 10, 13, 1, 13, 0, 0, 0, 0, 0, 0>>)

\* the characters 0123456789abcdef
LowerHexDigitBytes == (48..57) \cup (97..102)

\* C18: one encode of a RandHexStr<L, RP, LP> with L in 1..=16 and LP in
\* 0..=16 appends exactly L*RP + LP characters, all of 0123456789abcdef,
\* after the text the buffer held, and makes RP draws plus one if LP > 0,
\* whatever values are drawn; with L = 0 it appends nothing.
C18_RandHexStrShape ==
    call.op = "rand_hex_str" =>
        /\ PriorKept
        /\ call.L \in 1..16 =>
            /\ Len(Appended) = (call.L * call.RP) + call.LP
            /\ \A i \in 1..Len(Appended) : Appended[i] \in LowerHexDigitBytes
            /\ RNG.draws = call.draws_before + call.RP + (IF call.LP > 0 THEN 1 ELSE 0)
        /\ call.L = 0 => string = call.before

\* RandHexStr<16, 2, 8>: forty characters from three draws
C18_Witness ==
    /\ call.op = "rand_hex_str"
    /\ call.L = 16 /\ call.RP = 2 /\ call.LP = 8
    /\ Len(Appended) = 40
    /\ RNG.draws = call.draws_before + 3

\* a draw whose fourteen high digits are zero: 0xab rendered with L = 16
C18_WitnessHighZeros ==
    /\ call.op = "rand_hex_str"
    /\ call.L = 16 /\ call.RP = 1 /\ call.LP = 0
    /\ string = <<120, 46, 48, 48, 48, 48, 48, 48, 48, 48, 48, 48, 48, 48, 48, 48, 97, 98>>

\* a draw of sixteen digits cut to its lowest three: 0x47e4ce4b896cdd1d
\* rendered with L = 3
C18_WitnessCut ==
    /\ call.op = "rand_hex_str"
    /\ call.L = 3 /\ call.RP = 1 /\ call.LP = 0
    /\ string = <<100, 49, 100>>

\* L = 0 with RP = 2 and LP = 5: nothing appended, no draw made
C18_WitnessNoLength ==
    /\ call.op = "rand_hex_str"
    /\ call.L = 0 /\ call.RP = 2 /\ call.LP = 5
    /\ string = call.before
    /\ RNG.draws = call.draws_before

\* the candidates drawn for group i of the call: those at the draws that
\* follow the draws of the groups before it
GroupDraws(i) ==
    LET before == Cardinality({<<k, j>> \in (1..(i - 1)) \X (1..MaxRange) :
                                  j <= call.ranges[k]})
    IN  [j \in 1..call.ranges[i] |-> call.choice_set[call.draws[before + j]]]

\* C19: random_choice! with groups c1..cg, a separator and a non-empty
\* candidate set gives G1 s G2 s .. s Gg, each Gi the concatenation of
\* exactly ci drawn candidates: the separator stands between the groups
\* only, not inside a group and not at the end.
C19_GroupsJoined ==
    call.op = "random_choice_split" =>
        LET groups == [i \in 1..Len(call.ranges) |-> Joined(GroupDraws(i), <<>>)]
        IN  /\ string = Joined(groups, call.split)
            /\ Len(string) = TotalLen(groups)
                               + ((Len(call.ranges) - 1) * Len(call.split))

\* random_choice!(2, 1; "-"; ["0", "10"]) drawing "10", "0" and "10"
C19_Witness ==
    /\ call.op = "random_choice_split"
    /\ call.ranges = <<2, 1>>
    /\ call.split = <<45>>
    /\ call.draws = <<2, 1, 2>>
    /\ string = <<49, 48, 48, 45, 49, 48>>

\* a last group that draws nothing, and a drawn candidate that is the
\* separator itself: random_choice!(1, 0; "-"; ["a", "-"]) drawing "-"
C19_WitnessEmptyGroup ==
    /\ call.op = "random_choice_split"
    /\ call.ranges = <<1, 0>>
    /\ call.split = <<45>>
    /\ call.choice_set = <<<<97>>, <<45>>>>
    /\ call.draws = <<2>>
    /\ string = <<45, 45>>

\* the texts of the elements of the inner value of a SliceSep: the items of
\* a vector or a tuple that are present, or the one text of a single value
RECURSIVE PresentTexts(_)
PresentTexts(items) ==
    IF items = <<>> THEN <<>>
    ELSE IF Absent(items[1]) THEN PresentTexts(Tail(items))
    ELSE <<TextOf(items[1])>> \o PresentTexts(Tail(items))

SliceElementTexts(inner) ==
    IF Composite(inner) THEN PresentTexts(inner.items) ELSE <<TextOf(inner)>>

\* C20: a SliceSep appended to a buffer renders the elements of its inner
\* value joined by its own separator, with no separator at the end, behind
\* the text the buffer held; inside a str_concat! with an outer separator
\* the outer separator stands once before and once after the SliceSep and
\* not between its elements.
C20_SliceSepJoined ==
    /\ (call.op = "push_slice_sep" /\ call.separator.kind # "()") =>
        /\ ~call.panicked
        /\ string = call.before
                      \o Joined(SliceElementTexts(call.inner), call.separator.text)
    /\ call.op = "str_concat_slice_sep" =>
        /\ ~call.panicked
        /\ string = Joined(<<<<84>>,
                             Joined(SliceElementTexts(call.inner),
                                    call.separator.text),
                             <<50>>>>, call.outer.text)

\* the bytes of the fragments, one after the other
RECURSIVE Concatenated(_)
Concatenated(fragments) ==
    IF fragments = <<>> THEN <<>>
    ELSE Head(fragments) \o Concatenated(Tail(fragments))

\* the digest of a message under an algorithm
DigestOf(alg, message) ==
    IF alg = "MD5" THEN md5_digest(message)
    ELSE IF alg = "SHA256" THEN sha2_digest(message, Sha256)
    ELSE IF alg = "SHA384" THEN sha2_digest(message, Sha384)
    ELSE sha2_digest(message, Sha512)

DigestSize(alg) ==
    CASE alg = "MD5" -> 16 [] alg = "SHA256" -> 32
      [] alg = "SHA384" -> 48 [] alg = "SHA512" -> 64

\* a byte upper-cased: 'a'..'z' become 'A'..'Z'
UpperCased(text) ==
    [i \in 1..Len(text) |-> IF text[i] \in 97..122 THEN text[i] - 32 ELSE text[i]]

\* the two lower-case hexadecimal digits of each byte, high digit first
RECURSIVE LowerHexOf(_)
LowerHexOf(bytes) ==
    IF bytes = <<>> THEN <<>>
    ELSE LET digit(d) == IF d < 10 THEN 48 + d ELSE 87 + d
         IN  <<digit(bytes[1] \div 16), digit(bytes[1] % 16)>>
               \o LowerHexOf(Tail(bytes))

\* C21: calc_hash! returns, in the list form and in the ITER form alike, the
\* hexadecimal text of the digest of the fragments fed in their order and
\* finalized once: exactly twice the digest size in characters (32, 64, 96,
\* 128), lower-case digits, and with UPPERCASE the same digits upper-cased.
C21_CalcHashText ==
    call.op = "calc_hash" =>
        LET lower == LowerHexOf(DigestOf(call.alg, Concatenated(call.inputs)))
        IN  /\ Len(call.returned) = 2 * DigestSize(call.alg)
            /\ Len(call.returned) \in {32, 64, 96, 128}
            /\ call.returned = IF call.UPPERCASE THEN UpperCased(lower) ELSE lower
            /\ string = call.before

\* calc_hash!(MD5: "hello", "world") is fc5e038d38a57032085441e7fe7010b0
C21_Witness ==
    /\ call.op = "calc_hash"
    /\ call.alg = "MD5" /\ ~call.UPPERCASE /\ ~call.ITER
    /\ call.inputs = << <<104, 101, 108, 108, 111>>, <<119, 111, 114, 108, 100>> >>
    /\ call.returned = <<102, 99, 53, 101, 48, 51, 56, 100, 51, 56, 97, 53, 55, 48,
                         51, 50, 48, 56, 53, 52, 52, 49, 101, 55, 102, 101, 55, 48,
                         49, 48, 98, 48>>

\* calc_hash!(SHA384: UPPERCASE; ITER => ["world", "hello"]): 96 characters
\* with upper-case digits, and not the text of "hello", "world"
C21_WitnessUpperIter ==
    /\ call.op = "calc_hash"
    /\ call.alg = "SHA384" /\ call.UPPERCASE /\ call.ITER
    /\ call.inputs = << <<119, 111, 114, 108, 100>>, <<104, 101, 108, 108, 111>> >>
    /\ Len(call.returned) = 96
    /\ \E i \in 1..96 : call.returned[i] \in 65..70
    /\ call.returned # UpperCased(LowerHexOf(DigestOf("SHA384",
                           <<104, 101, 108, 108, 111, 119, 111, 114, 108, 100>>)))

\* the text on an empty buffer of the value of the last call, as the
\* formatter of the build writes it
FormattedValue == format_float(call.value, call.ryu)

HasDot(text) == \E i \in 1..Len(text) : text[i] = 46

\* C22: a finite float whose formatted text has no decimal point, rendered
\* with no resize, no minimum and integer-only off, appends the formatted
\* text followed by ".0"; the infinities append "inf" / "-inf" and nothing
\* else under every R, M and integer-only configuration.
C22_DefaultShowsPoint ==
    call.op = "encode_float" =>
        /\ (/\ call.value.kind = "finite" /\ ~HasDot(FormattedValue)
            /\ call.R = 0 /\ call.M = 0 /\ ~call.U)
               => /\ ~call.panicked
                  /\ string = call.before \o FormattedValue \o <<46, 48>>
        /\ call.value.kind = "inf"
               => /\ ~call.panicked
                  /\ string = call.before
                        \o (IF call.value.negative THEN <<45>> ELSE <<>>)
                        \o <<105, 110, 102>>

\* the zero digits C23 expects after the '.'
ExpectedZeros == IF call.R > 0 THEN call.R ELSE IF call.M > 0 THEN call.M ELSE 1

\* C23: when the formatter wrote no decimal point, the value is finite and
\* integer-only is off, the encoder keeps the whole integer part, appends
\* '.', and then exactly R zeros if R > 0, else exactly M zeros if M > 0,
\* else a single '0'.
C23_ZerosAfterPoint ==
    (/\ call.op = "encode_float" /\ call.value.kind = "finite"
     /\ ~HasDot(FormattedValue) /\ ~call.U)
        => /\ ~call.panicked
           /\ string = call.before \o FormattedValue \o <<46>>
                          \o Fill(ExpectedZeros, 48)

\* C26: appending a float NumStr leaves the bytes already in the buffer
\* unchanged, whatever they are, never panics, and appends what the same
\* value and configuration render onto an empty buffer.
C26_FloatAppendOnly ==
    call.op = "encode_float" =>
        /\ ~call.panicked
        /\ PriorKept
        /\ Appended = NumStrFloat_push_to_string(<<>>, call.value, call.U, call.R,
                          call.M, call.ryu, call.overflow_checks).buf

\* each text followed by the separator
RECURSIVE EachFollowed(_, _)
EachFollowed(items, sep) ==
    IF items = <<>> THEN <<>>
    ELSE (items[1] \o sep) \o EachFollowed(Tail(items), sep)

\* the last call rendered a sequence in its with-separator form
SequenceCall ==
    call.op \in {"encode_to_buf_with_separator", "push_to_string_with_separator"}

C24_WitnessLegacy ==
    /\ call.op = "push_to_string_with_separator"
    /\ call.items = << <<97>>, <<98, 99>> >>
    /\ call.separator = StrSep(<<44, 32>>)
    /\ string = <<120, 46, 97, 44, 32, 98, 99, 44, 32>>

\* an empty sequence behind "x.": nothing is appended
C24_WitnessEmpty ==
    /\ SequenceCall
    /\ call.items = <<>> /\ call.sep # <<>>
    /\ string = <<120, 46>>

\* a numeral brought to a width: zeros in front when it is shorter, its
\* most significant digits dropped when it is longer
ToWidth(numeral, width) ==
    IF Len(numeral) >= width
    THEN SubSeq(numeral, Len(numeral) - width + 1, Len(numeral))
    ELSE Fill(width - Len(numeral), 48) \o numeral

\* C25: the NumStr of string.rs renders every value, 0 included, with R > 0
\* as exactly R characters, the most significant digits dropped and zeros
\* filled in front; with R = 0 and M > 0 as at least M characters,
\* zero-filled.
C25_LegacyWidth ==
    call.op = "legacy_encode" =>
        LET numeral == Numeral(call.value, call.B, call.U)
        IN  /\ PriorKept
            /\ call.R > 0 => Appended = ToWidth(numeral, call.R)
            /\ (call.R = 0 /\ call.M > 0) =>
                   /\ Len(Appended) >= call.M
                   /\ Appended = IF Len(numeral) >= call.M THEN numeral
                                 ELSE ToWidth(numeral, call.M)

\* the value renders nothing: None, Err, an empty sequence
RendersNothing(value) == StringT_encode_to_buf(<<>>, value) = <<>>

\* C27: push_any_with_separator never removes or changes the bytes the
\* buffer held before the call: the prior content remains a prefix of the
\* buffer, and for a value that renders nothing the buffer is left exactly
\* as it was.
C27_PriorContentKept ==
    call.op = "push_any_value_with_separator" =>
        /\ PriorKept
        /\ RendersNothing(call.value) => string = call.before

\* what the other destination holds after the same call on the same content
OtherDestination ==
    IF call.dest = "vec"
    THEN IF call.with_separator
         THEN encode_to_bytes_buf_with_separator(call.before, call.value, call.sep)
         ELSE encode_to_bytes_buf(call.before, call.value)
    ELSE IF call.with_separator
         THEN encode_to_buf_with_separator(call.before, call.value, call.sep)
         ELSE encode_to_buf(call.before, call.value)

\* C30: for every encodable value and every separator the Vec<u8> path and
\* the BytesMut path append the same bytes to buffers that held the same
\* content.
C30_DestinationsAgree ==
    call.op = "encode_to_destination" => string = OtherDestination

\* the buffer ends with the text
EndsWith(buf, text) ==
    /\ Len(buf) >= Len(text)
    /\ SubSeq(buf, Len(buf) - Len(text) + 1, Len(buf)) = text

\* C28: remove_end of string.rs removes exactly the bytes of the separator
\* when the buffer ends with the separator and otherwise leaves the buffer
\* unchanged, without a panic, for every buffer (one shorter than the
\* separator included) and every separator: a char of 1 to 4 bytes or a
\* &str.
C28_RemoveEndExact ==
    call.op = "into_string_remove_tail" =>
        /\ ~call.panicked
        /\ string = IF EndsWith(call.before, call.separator.text)
                    THEN SubSeq(call.before, 1,
                                Len(call.before) - Len(call.separator.text))
                    ELSE call.before

\* C29: the forms of b64_encode! that write into a buffer of the caller are
\* append-only: after the call the buffer is its prior content followed by
\* the Base64 text of the payload.
C29_IntoAppendOnly ==
    call.op = "b64_encode_into" =>
        string = call.before \o Base64Text(call.data, call.scheme)

====
